---- MODULE Spec2Model ----
(***************************************************************************)
(* ATS-N filing feature extractor: label normaliser, radio-button row      *)
(* index and resolver (radio_matrix.py), feature composers and the master  *)
(* extractor (seminar_parse.py), and the sibling-walking resolver of       *)
(* adv_seminar_parse.py.                                                    *)
(*                                                                         *)
(* A Python str is a sequence of one-character strings.  The characters    *)
(* outside ASCII that the code names are written as their HTML entity:     *)
(* "&ndash;" is U+2013, one character of the hyphen class of _HYPHEN_WS.   *)
(* None is the string "None", a bool is "True" or "False", and a call that *)
(* ends in an uncaught exception yields the exception's name.              *)
(***************************************************************************)
EXTENDS Naturals, Sequences, FiniteSets, TLC

VARIABLES
    pc,       \* control point of the running call
    txt,      \* the str handed to _normalise
    norm,     \* the results of the successive _normalise calls on txt
    soup,     \* the parsed document (BeautifulSoup tree)
    rows,     \* RadioMatrix.rows: the list of (label, row) pairs
    log,      \* the resolver calls made so far: (function, fragment, outcome)
    args,     \* the arguments of the running call
    results,  \* the working result dict of extract_features_from_html
    filters,  \* warnings.filters, the warning filters of the process
    suspended,\* the call of extract_features_from_html that is not running
    files,    \* batch_runner: the files the loop has still to process
    bin_rows, \* batch_runner: the rows of the binary table
    long_rows,\* batch_runner: the rows of the long-text table
    warned,   \* batch_runner: the warnings issued by the loop
    attempt,  \* _get_json: the loop variable k of `for k in range(tries)`
    sent,     \* _get_json: the status codes of the responses received
    slept     \* _get_json: the durations handed to time.sleep

\* the state of the process, of the batch loop and of the retrieval
process == <<filters, suspended>>
batch == <<files, bin_rows, long_rows, warned>>
http == <<attempt, sent, slept>>

vars == <<pc, txt, norm, soup, rows, log, args, results, process, batch, http>>

(***************************************************************************)
(* Bounds of the model.                                                    *)
(***************************************************************************)
MaxLen == 5
MaxNodes == 3
MaxRows == 2
MaxQueries == 2
MaxBody == 3
MaxPhrases == 2
MaxRuns == 2

(***************************************************************************)
(* Python str primitives.                                                  *)
(***************************************************************************)
None == "None"

UpperCase == <<"A", "B", "C", "D", "E", "F", "G", "H", "I", "J", "K", "L", "M",
               "N", "O", "P", "Q", "R", "S", "T", "U", "V", "W", "X", "Y", "Z">>

LowerCase == <<"a", "b", "c", "d", "e", "f", "g", "h", "i", "j", "k", "l", "m",
               "n", "o", "p", "q", "r", "s", "t", "u", "v", "w", "x", "y", "z">>

\* upper-case letter -> lower-case letter, and back
ToLower ==
    [c \in {UpperCase[i] : i \in 1..Len(UpperCase)} |->
        LowerCase[CHOOSE i \in 1..Len(UpperCase) : UpperCase[i] = c]]

ToUpper ==
    [c \in {LowerCase[i] : i \in 1..Len(LowerCase)} |->
        UpperCase[CHOOSE i \in 1..Len(LowerCase) : LowerCase[i] = c]]

IsUpper(c) == c \in DOMAIN ToLower

\* str.lower() on one character
LowerChar(c) == IF c \in DOMAIN ToLower THEN ToLower[c] ELSE c

\* the sequence f as an enumerated tuple: the same value, its elements
\* evaluated once
AsTuple(f) == f \o <<>>

\* str.lower()
lower(s) == AsTuple([i \in 1..Len(s) |-> LowerChar(s[i])])

\* the characters \s matches and str.strip() removes
Whitespace == {" ", "\t", "\n"}

\* the character class [...] of _HYPHEN_WS: U+2010, U+2011, U+2013, U+2014, "-"
HyphenFamily == {"-", "&hyphen;", "&#8209;", "&ndash;", "&mdash;"}

RECURSIVE lstrip(_)
lstrip(s) ==
    IF s # <<>> /\ Head(s) \in Whitespace THEN lstrip(Tail(s)) ELSE s

RECURSIVE rstrip(_)
rstrip(s) ==
    IF s # <<>> /\ s[Len(s)] \in Whitespace
    THEN rstrip(SubSeq(s, 1, Len(s) - 1))
    ELSE s

\* str.strip()
strip(s) == rstrip(lstrip(s))

\* Python's `a in b` on two str: a is a contiguous substring of b
In(a, b) ==
    \E i \in 0..(Len(b) - Len(a)) : SubSeq(b, i + 1, i + Len(a)) = a

\* str.startswith
startswith(s, p) == Len(p) <= Len(s) /\ SubSeq(s, 1, Len(p)) = p

(***************************************************************************)
(* Python re, as far as the patterns of seminar_parse.py use it.  A        *)
(* pattern is a sequence of elements: a literal string, a character class  *)
(* with a repetition ("1", "?", "+"), or the anchor \b.  A regex is the    *)
(* sequence of its alternatives, tried in order.  All patterns are         *)
(* compiled with re.I: literals and classes are written in lower case and  *)
(* are matched against the lower-cased text.                               *)
(***************************************************************************)
Digits == {"0", "1", "2", "3", "4", "5", "6", "7", "8", "9"}

Letters == DOMAIN ToUpper

\* \w
WordChars == Letters \cup Digits \cup {"_"}

One(class) == [rep |-> "1", cls |-> class, str |-> <<>>]
Opt(class) == [rep |-> "?", cls |-> class, str |-> <<>>]
Plus(class) == [rep |-> "+", cls |-> class, str |-> <<>>]
WordBoundary == [rep |-> "b", cls |-> {}, str |-> <<>>]

\* a literal string
Lit(str) == <<[rep |-> "lit", cls |-> {}, str |-> str]>>

\* \s+
Spaces == <<Plus(Whitespace)>>

IsWordAt(s, i) == i >= 1 /\ i <= Len(s) /\ s[i] \in WordChars

\* \b holds between s[i-1] and s[i]
BoundaryAt(s, i) == IsWordAt(s, i - 1) # IsWordAt(s, i)

\* the positions where a match of pat[k..] that starts at s[i] can end (the
\* index after its last character); s is the lower-cased text
RECURSIVE Ends(_, _, _, _)
Ends(pat, k, s, i) ==
    IF k > Len(pat) THEN {i}
    ELSE LET e == pat[k]
             here == i <= Len(s) /\ s[i] \in e.cls
             after == i + Len(e.str)
         IN  IF e.rep = "lit"
               THEN (IF after <= Len(s) + 1 /\ SubSeq(s, i, after - 1) = e.str
                       THEN Ends(pat, k + 1, s, after) ELSE {})
             ELSE IF e.rep = "b"
               THEN (IF BoundaryAt(s, i) THEN Ends(pat, k + 1, s, i) ELSE {})
             ELSE IF e.rep = "1"
               THEN (IF here THEN Ends(pat, k + 1, s, i + 1) ELSE {})
             ELSE IF e.rep = "?"
               THEN Ends(pat, k + 1, s, i)
                      \cup (IF here THEN Ends(pat, k + 1, s, i + 1) ELSE {})
             ELSE (IF here
                     THEN Ends(pat, k + 1, s, i + 1) \cup Ends(pat, k, s, i + 1)
                     ELSE {})

SetMax(S) == CHOOSE x \in S : \A y \in S : y <= x
SetMin(S) == CHOOSE x \in S : \A y \in S : x <= y

NoMatch == [start |-> 0, end |-> 0]

\* the match of a regex at position i: [start, end) of the first of its
\* alternatives that matches there (greedy: its longest end)
MatchAt(regex, s, i) ==
    LET alts == {a \in 1..Len(regex) : Ends(regex[a], 1, s, i) # {}}
    IN  IF alts = {} THEN NoMatch
        ELSE [start |-> i, end |-> SetMax(Ends(regex[SetMin(alts)], 1, s, i))]

\* the leftmost match in the lower-cased text s at or after position from
SearchFrom(regex, s, from) ==
    LET at == {i \in from..(Len(s) + 1) : MatchAt(regex, s, i).start # 0}
    IN  IF at = {} THEN NoMatch ELSE MatchAt(regex, s, SetMin(at))

\* rx.search(s)
search(regex, s) == SearchFrom(regex, lower(s), 1)

\* the successive non-overlapping matches in the lower-cased text s
RECURSIVE MatchesFrom(_, _, _)
MatchesFrom(regex, s, from) ==
    LET m == SearchFrom(regex, s, from)
    IN  IF m.start = 0 THEN <<>>
        ELSE <<m>> \o MatchesFrom(regex, s, IF m.end > m.start THEN m.end ELSE m.end + 1)

\* rx.finditer(s)
finditer(regex, s) == MatchesFrom(regex, lower(s), 1)

\* m.group(0)
group0(s, m) == SubSeq(s, m.start, m.end - 1)

\* str.upper()
UpperChar(c) == IF c \in DOMAIN ToUpper THEN ToUpper[c] ELSE c

upper(s) == AsTuple([i \in 1..Len(s) |-> UpperChar(s[i])])

\* the order of characters (code points) that str comparison uses
CodePoints ==
    <<"\t", "\n", " ", "\"", "'", "(", ")", "+", ",", "-", ".", "/",
      "0", "1", "2", "3", "4", "5", "6", "7", "8", "9", ":", ";", "?",
      "A", "B", "C", "D", "E", "F", "G", "H", "I", "J", "K", "L", "M",
      "N", "O", "P", "Q", "R", "S", "T", "U", "V", "W", "X", "Y", "Z", "_",
      "a", "b", "c", "d", "e", "f", "g", "h", "i", "j", "k", "l", "m",
      "n", "o", "p", "q", "r", "s", "t", "u", "v", "w", "x", "y", "z", "|",
      "&hyphen;", "&#8209;", "&ndash;", "&mdash;", "&hellip;">>

ord ==
    [c \in {CodePoints[i] : i \in 1..Len(CodePoints)} |->
        CHOOSE i \in 1..Len(CodePoints) : CodePoints[i] = c]

\* a < b on str
RECURSIVE StrLess(_, _)
StrLess(a, b) ==
    IF b = <<>> THEN FALSE
    ELSE IF a = <<>> THEN TRUE
    ELSE IF Head(a) = Head(b) THEN StrLess(Tail(a), Tail(b))
    ELSE ord[Head(a)] < ord[Head(b)]

\* sorted(S) for a set (or the distinct members of a list) of str
RECURSIVE sorted(_)
sorted(S) ==
    IF S = {} THEN <<>>
    ELSE LET least == CHOOSE x \in S : \A y \in S \ {x} : StrLess(x, y)
         IN  <<least>> \o sorted(S \ {least})

(***************************************************************************)
(* Label normaliser: _HYPHEN_WS.sub(" ", txt).lower().strip()              *)
(***************************************************************************)
\* _HYPHEN_WS.sub(" ", s).  re.sub scans left to right; at each position the
\* first alternative (one hyphen-family character) is tried before the
\* second (a whitespace run), and every match is replaced by one space.  So
\* every hyphen becomes a space, a whitespace run becomes one space (the
\* characters of the run after its first are dropped), and any other
\* character is kept.
HyphenWsSub(s) ==
    LET InRun(i) == s[i] \in Whitespace /\ i > 1 /\ s[i - 1] \in Whitespace
        kept == SelectSeq([i \in 1..Len(s) |-> i], LAMBDA i : ~InRun(i))
    IN  AsTuple([j \in 1..Len(kept) |->
                    IF s[kept[j]] \in HyphenFamily \cup Whitespace
                    THEN " " ELSE s[kept[j]]])

_normalise(s) == strip(lower(HyphenWsSub(s)))

(***************************************************************************)
(* Specification of the normaliser alone: any short str over an alphabet   *)
(* with a lower-case letter, an upper-case letter, two whitespace          *)
(* characters and two hyphen-family characters is normalised, and the      *)
(* result is normalised again.                                             *)
(***************************************************************************)
Alphabet == {"a", "B", " ", "\t", "-", "&ndash;"}

RECURSIVE Strings(_)
Strings(n) ==
    IF n = 0 THEN {<<>>}
    ELSE LET shorter == Strings(n - 1)
         IN  shorter \cup {Append(s, c) : s \in {t \in shorter : Len(t) = n - 1},
                                           c \in Alphabet}

\* a document without rows, anchors or pattern hits, and a call without
\* identifiers
NoSoup == [rows |-> <<>>, body |-> <<>>, hits |-> {}, is_xml |-> FALSE]

NoArgs == [ats_id |-> None, year |-> None]

\* no second call, no batch and no retrieval under way
NoCall == [pc |-> "none"]

Idle ==
    /\ suspended = NoCall
    /\ files = <<>>
    /\ bin_rows = <<>>
    /\ long_rows = <<>>
    /\ warned = <<>>
    /\ attempt = 0
    /\ sent = <<>>
    /\ slept = <<>>

\* dict primitives: d[k] = v, del d[k], d.update(e)
EmptyDict == [k \in {} |-> None]

Set(d, k, v) == [j \in DOMAIN d \cup {k} |-> IF j = k THEN v ELSE d[j]]

Del(d, k) == [j \in DOMAIN d \ {k} |-> d[j]]

Update(d, e) == [j \in DOMAIN d \cup DOMAIN e |-> IF j \in DOMAIN e THEN e[j] ELSE d[j]]

InitNormalise ==
    /\ pc = "normalise"
    /\ txt \in Strings(MaxLen)
    /\ norm = <<>>
    /\ soup = NoSoup
    /\ rows = <<>>
    /\ log = <<>>
    /\ args = NoArgs
    /\ results = EmptyDict
    /\ filters = <<>>
    /\ Idle

\* norm1 = _normalise(txt)
Normalise ==
    /\ pc = "normalise"
    /\ norm' = <<_normalise(txt)>>
    /\ pc' = "renormalise"
    /\ UNCHANGED <<txt, soup, rows, log, args, results>>
    /\ UNCHANGED <<process, batch, http>>

\* norm2 = _normalise(norm1)
Renormalise ==
    /\ pc = "renormalise"
    /\ norm' = Append(norm, _normalise(norm[1]))
    /\ pc' = "normalised"
    /\ UNCHANGED <<txt, soup, rows, log, args, results>>
    /\ UNCHANGED <<process, batch, http>>

NextNormalise == Normalise \/ Renormalise

SpecNormalise == InitNormalise /\ [][NextNormalise]_vars

(***************************************************************************)
(* C1.  Label normalisation is idempotent, _normalise(_normalise(s)) =     *)
(* _normalise(s) for every s, and the normalised string has no two         *)
(* consecutive spaces, no hyphen-family character, no upper-case letter    *)
(* and no leading or trailing whitespace.                                  *)
(***************************************************************************)
Canonical(s) ==
    /\ \A i \in 1..Len(s) : s[i] \notin HyphenFamily /\ ~IsUpper(s[i])
    /\ \A i \in 1..(Len(s) - 1) : ~(s[i] = " " /\ s[i + 1] = " ")
    /\ s # <<>> => (s[1] \notin Whitespace /\ s[Len(s)] \notin Whitespace)

C1_NormaliseIdempotent ==
    /\ Len(norm) >= 1 => Canonical(norm[1])
    /\ Len(norm) = 2 => norm[2] = norm[1]

(***************************************************************************)
(* The parsed document.  A table row (tr) is                               *)
(*   labelled : whether the row has a td.label cell                        *)
(*   td       : the text of its first td cell, row.td.get_text(" ",        *)
(*              strip=True)                                                *)
(*   label_cell : the text of its td.label cell, row.find("td",            *)
(*              class_="label").get_text(" ", strip=True); empty when the  *)
(*              row has none                                               *)
(*   children : the sibling list that holds the radio images, in document  *)
(*              order                                                      *)
(* and a node of that list is an element (an img with its src, or another  *)
(* tag) or a text node (NavigableString) with its string.  The document is *)
(*   rows : its tr elements, in document order                             *)
(*   body : its anchors and narrative, in document order                   *)
(*   hits : the REGEX_FEATURES keys whose pattern re.search finds in the   *)
(*          raw text                                                       *)
(***************************************************************************)
Img(src) == [name |-> "img", src |-> src, string |-> <<>>]
Tag(name) == [name |-> name, src |-> "", string |-> <<>>]
Text(s) == [name |-> "#text", src |-> "", string |-> s]

Checked == Img("radio-checked")
Unchecked == Img("radio-unchecked")
Span == Tag("span")

\* isinstance(node, str): NavigableString is a str, Tag is not
isinstance_str(node) == node.name = "#text"

Yes == <<"Y", "e", "s">>
No == <<"N", "o">>
NA == <<"N", "/", "A">>
Blank == <<" ">>

Texts == {Yes, No, NA, Blank}

Elements == {Checked, Unchecked, Span}

\* every sibling list of at most n nodes; a parser never leaves two text
\* nodes side by side
RECURSIVE Siblings(_)
Siblings(n) ==
    IF n = 0 THEN {<<>>}
    ELSE LET shorter == Siblings(n - 1)
             longest == {t \in shorter : Len(t) = n - 1}
             EndsInText(t) == t # <<>> /\ isinstance_str(t[Len(t)])
         IN  shorter \cup
             {Append(t, k) : t \in longest, k \in Elements} \cup
             {Append(t, Text(x)) : t \in {u \in longest : ~EndsInText(u)}, x \in Texts}

\* a tr whose first cell is its td.label cell
Row(td, children) ==
    [labelled |-> TRUE, td |-> td, label_cell |-> td, children |-> children]

\* a tr without a td.label cell
Unlabelled(td, children) ==
    [labelled |-> FALSE, td |-> td, label_cell |-> <<>>, children |-> children]

\* a tr whose td.label cell follows another td:
\* <tr><td>first</td><td class="label">label</td>...</tr>
LabelSecond(first, label, children) ==
    [labelled |-> TRUE, td |-> first, label_cell |-> label, children |-> children]

(***************************************************************************)
(* RadioMatrix (radio_matrix.py)                                           *)
(***************************************************************************)
\* soup.select("tr:has(td.label)"): the rows with a label cell, document order
select_labelled(trs) == SelectSeq(trs, LAMBDA r : r.labelled)

\* __init__ and _build_rows_cache: (normalised text of row.td, row) for each
\* selected row
_build_rows_cache(sp) ==
    LET sel == select_labelled(sp.rows)
    IN  [i \in 1..Len(sel) |-> [label |-> _normalise(sel[i].td), row |-> sel[i]]]

\* row.select_one('img[src*="radio-checked"]'): index of the first img whose
\* src holds "radio-checked", 0 when there is none
select_one(row) ==
    LET hits == {i \in 1..Len(row.children) :
                    /\ row.children[i].name = "img"
                    /\ row.children[i].src = "radio-checked"}
    IN  IF hits = {} THEN 0 ELSE CHOOSE i \in hits : \A j \in hits : i <= j

\* lines 32-37 of _radio_yes_no for the row the loop stopped at.
\*   img.next_sibling is None after the last node, and (None or "") is "";
\*   a Tag is truthy and Tag.lower is the lookup find("lower"), which is None,
\*   so calling it raises TypeError
_radio_row(row) ==
    LET img == select_one(row)
    IN  IF img = 0 THEN None
        ELSE IF img = Len(row.children)
             THEN (IF In(lower(Yes), lower(<<>>)) THEN "True" ELSE "False")
        ELSE IF ~isinstance_str(row.children[img + 1]) THEN "TypeError"
        ELSE IF In(lower(Yes), lower(row.children[img + 1].string))
             THEN "True" ELSE "False"

\* _radio_scan with `continue` in place of `return None` for a row without a
\* selected marker
RECURSIVE _radio_scan_past_unmarked(_, _, _)
_radio_scan_past_unmarked(rws, frag, i) ==
    IF i > Len(rws) THEN None
    ELSE IF ~In(frag, rws[i].label) \/ select_one(rws[i].row) = 0
         THEN _radio_scan_past_unmarked(rws, frag, i + 1)
    ELSE _radio_row(rws[i].row)

\* the loop of _radio_yes_no from index i on: rows whose label does not hold
\* the fragment are skipped, the first that does decides
RECURSIVE _radio_scan(_, _, _)
_radio_scan(rws, frag, i) ==
    IF i > Len(rws) THEN None
    ELSE IF ~In(frag, rws[i].label) THEN _radio_scan(rws, frag, i + 1)
    ELSE _radio_row(rws[i].row)

_radio_yes_no(rws, label_fragment) ==
    _radio_scan(rws, _normalise(label_fragment), 1)

\* seminar_parse._bool_to_word: {True: "Yes", False: "No"}.get(value, "Unclear")
_bool_to_word(value) ==
    IF value = "True" THEN "Yes" ELSE IF value = "False" THEN "No" ELSE "Unclear"

(***************************************************************************)
(* adv_seminar_parse.get_radio_button_answer: the resolver that walks the  *)
(* siblings.                                                               *)
(***************************************************************************)
\* while node and (not isinstance(node, str) or not node.strip()):
\*     node = node.next_sibling
RECURSIVE walk_siblings(_, _)
walk_siblings(children, i) ==
    IF i > Len(children) THEN 0
    ELSE IF ~isinstance_str(children[i]) \/ strip(children[i].string) = <<>>
         THEN walk_siblings(children, i + 1)
    ELSE i

adv_radio_row(row) ==
    LET checked == select_one(row)
        node == IF checked = 0 THEN 0 ELSE walk_siblings(row.children, checked + 1)
    IN  IF checked = 0 THEN None
        ELSE IF node = 0 THEN None
        ELSE IF strip(lower(row.children[node].string)) = lower(Yes)
             THEN "True" ELSE "False"

\* for row in soup.find_all("tr"): the first row with a label cell whose
\* lower-cased text holds the lower-cased fragment decides
RECURSIVE adv_scan(_, _, _)
adv_scan(trs, frag, i) ==
    IF i > Len(trs) THEN None
    ELSE IF ~(trs[i].labelled /\ In(lower(frag), lower(trs[i].label_cell)))
         THEN adv_scan(trs, frag, i + 1)
    ELSE adv_radio_row(trs[i])

get_radio_button_answer(sp, label_fragment) == adv_scan(sp.rows, label_fragment, 1)

(***************************************************************************)
(* The narrative part of the tree (soup.body): text nodes, anchors         *)
(* <a name=...> and container elements with children.  An anchor name is   *)
(* the sequence of its pieces, "partIIIitem7" is <<"partIII", "item",      *)
(* "7">>, so that startswith("partIIIitem") can be computed.               *)
(***************************************************************************)
BText(s) == [name |-> "#text", attr |-> <<>>, string |-> s, children |-> <<>>]
Anchor(n) == [name |-> "a", attr |-> n, string |-> <<>>, children |-> <<>>]
Div(class, kids) == [name |-> "div", attr |-> <<class>>, string |-> <<>>, children |-> kids]

PartIII(item) == <<"partIII", "item", item>>
PartII(item) == <<"partII", "item", item>>

\* the tree in document order (pre-order): each element, then its children
RECURSIVE Flatten(_)
Flatten(nodes) ==
    IF nodes = <<>> THEN <<>>
    ELSE <<Head(nodes)>> \o Flatten(Head(nodes).children) \o Flatten(Tail(nodes))

\* the text nodes below (or at) a node, in document order
TextsOf(node) ==
    SelectSeq(Flatten(<<node>>), LAMBDA n : n.name = "#text")

\* " ".join(parts) on str
RECURSIVE JoinStr(_, _)
JoinStr(sep, parts) ==
    IF parts = <<>> THEN <<>>
    ELSE IF Len(parts) = 1 THEN parts[1]
    ELSE parts[1] \o sep \o JoinStr(sep, Tail(parts))

\* Tag.get_text(" ", strip=True): the stripped, non-empty strings, joined
get_text(node) ==
    LET texts == TextsOf(node)
        stripped == AsTuple([i \in 1..Len(texts) |-> strip(texts[i].string)])
    IN  JoinStr(<<" ">>, SelectSeq(stripped, LAMBDA t : t # <<>>))

\* soup.find("a", {"name": anchor_name}): position, in document order, of the
\* first such anchor; 0 when there is none
find_anchor(sp, anchor_name) ==
    LET flat == Flatten(sp.body)
        at == {i \in 1..Len(flat) : flat[i].name = "a" /\ flat[i].attr = anchor_name}
    IN  IF at = {} THEN 0 ELSE CHOOSE i \in at : \A j \in at : i <= j

\* section_bits that also stops at a container element
RECURSIVE section_bits_to_container(_, _, _)
section_bits_to_container(flat, a, i) ==
    IF i > Len(flat) THEN <<>>
    ELSE IF flat[i].name = "#text"
         THEN <<flat[i].string>> \o section_bits_to_container(flat, a, i + 1)
    ELSE IF \/ flat[i].name = "div"
            \/ /\ flat[i].name = "a"
               /\ startswith(flat[i].attr, <<"partIII", "item">>)
               /\ flat[i] # flat[a]
         THEN <<>>
    ELSE <<get_text(flat[i])>> \o section_bits_to_container(flat, a, i + 1)

\* the loop over a.next_elements from position i of the flattened tree: text
\* nodes give their string, an anchor named partIIIitem... that differs from
\* the starting one ends the loop, any other element gives its get_text
RECURSIVE section_bits(_, _, _)
section_bits(flat, a, i) ==
    IF i > Len(flat) THEN <<>>
    ELSE IF flat[i].name = "#text"
         THEN <<flat[i].string>> \o section_bits(flat, a, i + 1)
    ELSE IF /\ flat[i].name = "a"
            /\ startswith(flat[i].attr, <<"partIII", "item">>)
            /\ flat[i] # flat[a]
         THEN <<>>
    ELSE <<get_text(flat[i])>> \o section_bits(flat, a, i + 1)

\* _section_text that, when the anchor is absent, reads from the first
\* element of the document instead of returning ""
_section_text_from_top(sp, anchor_name) ==
    LET a == find_anchor(sp, anchor_name)
    IN  IF a = 0 THEN JoinStr(<<" ">>, section_bits(Flatten(sp.body), 1, 1))
        ELSE JoinStr(<<" ">>, section_bits(Flatten(sp.body), a, a + 1))

_section_text(sp, anchor_name) ==
    LET a == find_anchor(sp, anchor_name)
    IN  IF a = 0 THEN <<>>
        ELSE JoinStr(<<" ">>, section_bits(Flatten(sp.body), a, a + 1))

\* _item7_text: the same loop from <a name="partIIIitem7">
_item7_text(sp) ==
    LET anchor == find_anchor(sp, PartIII("7"))
    IN  IF anchor = 0 THEN <<>>
        ELSE JoinStr(<<" ">>, section_bits(Flatten(sp.body), anchor, anchor + 1))

\* the loop of _item13_text from position i: the first <div class="fakeBox3">
\* gives its text; another partIIIitem anchor ends the search
RECURSIVE item13_scan(_, _, _)
item13_scan(flat, anchor, i) ==
    IF i > Len(flat) THEN <<>>
    ELSE IF flat[i].name = "#text" THEN item13_scan(flat, anchor, i + 1)
    ELSE IF flat[i].name = "div" /\ flat[i].attr = <<"fakeBox3">> THEN get_text(flat[i])
    ELSE IF /\ flat[i].name = "a"
            /\ startswith(flat[i].attr, <<"partIII", "item">>)
            /\ i # anchor
         THEN <<>>
    ELSE item13_scan(flat, anchor, i + 1)

_item13_text(sp) ==
    LET anchor == find_anchor(sp, PartIII("13"))
    IN  IF anchor = 0 THEN <<>>
        ELSE item13_scan(Flatten(sp.body), anchor, anchor + 1)

(***************************************************************************)
(* Specification of the lookups on one parsed document: the row index,     *)
(* the two resolvers and the section extractor.  The document is empty,    *)
(* or one labelled row with every sibling list of at most MaxNodes nodes,  *)
(* or up to MaxRows rows laid out as the filing form lays them out (radio  *)
(* image, "Yes", radio image, "No"), or a narrative of at most MaxBody     *)
(* top-level nodes.  Either the index is built once and then queried up    *)
(* to MaxQueries times, in any order, or the tree is handed to             *)
(* get_radio_button_answer or to _section_text.                            *)
(***************************************************************************)
FragOptOut == <<"O", "p", "t", "-", "o", "u", "t">>
FragEcn == <<"E", "C", "N">>

Fragments == {FragOptOut, FragEcn}

TdExact == <<"O", "p", "t", " ", "O", "u", "t">>
TdLettered == <<"a", ".", " ", "O", "p", "t", "-", "o", "u", "t">>
TdContains == <<"N", "o", " ", "o", "p", "t", " ", "o", "u", "t">>
TdEcn == <<"E", "C", "N">>

TdTexts == {TdExact, TdLettered, TdContains, TdEcn}

LayoutNone == <<Unchecked, Text(Yes), Unchecked, Text(No)>>
LayoutYes == <<Checked, Text(Yes), Unchecked, Text(No)>>
LayoutNo == <<Unchecked, Text(Yes), Checked, Text(No)>>

FormLayouts == {LayoutNone, LayoutYes, LayoutNo}

FormRows ==
    {Row(td, ch) : td \in TdTexts, ch \in FormLayouts}
        \cup {Unlabelled(TdExact, LayoutYes)}

\* rows whose label cell is their second cell, after a numbering cell or a
\* cell with the text of another question
TdNumber == <<"1", ".">>

SecondCellRows ==
    {LabelSecond(first, td, ch) : first \in {TdNumber, TdEcn},
                                  td \in {TdExact, TdEcn},
                                  ch \in {LayoutYes, LayoutNo}}

RECURSIVE RowLists(_)
RowLists(n) ==
    IF n = 0 THEN {<<>>}
    ELSE LET shorter == RowLists(n - 1)
         IN  shorter \cup {Append(rs, r) : rs \in {t \in shorter : Len(t) = n - 1},
                                           r \in FormRows}

\* narrative: two texts, three item anchors, a container that holds an item
\* anchor between two texts, and a container that holds one text
TextX == <<"x">>
TextY == <<" ", "y", " ">>

BodyNodes ==
    {BText(TextX), BText(TextY), Anchor(PartIII("7")), Anchor(PartIII("8")),
     Anchor(PartII("5")),
     Div("fakeBox3", <<BText(TextX), Anchor(PartIII("8")), BText(TextY)>>),
     Div("fakeBox3", <<BText(TextY)>>)}

RECURSIVE Bodies(_)
Bodies(n) ==
    IF n = 0 THEN {<<>>}
    ELSE LET shorter == Bodies(n - 1)
             longest == {t \in shorter : Len(t) = n - 1}
             EndsInText(t) == t # <<>> /\ t[Len(t)].name = "#text"
         IN  shorter \cup
             {Append(t, k) : t \in longest, k \in {b \in BodyNodes : b.name # "#text"}}
             \cup
             {Append(t, k) : t \in {u \in longest : ~EndsInText(u)},
                             k \in {b \in BodyNodes : b.name = "#text"}}

AnchorNames == {PartIII("7"), PartIII("8"), PartII("5")}

LookupSoups ==
    {[NoSoup EXCEPT !.rows = rs] : rs \in RowLists(MaxRows)}
        \cup {[NoSoup EXCEPT !.rows = <<Row(td, ch)>>] :
                  td \in TdTexts, ch \in Siblings(MaxNodes)}
        \cup {[NoSoup EXCEPT !.body = b] : b \in Bodies(MaxBody)}
        \cup {[NoSoup EXCEPT !.rows = <<r>>] : r \in SecondCellRows}
        \cup {[NoSoup EXCEPT !.rows = <<Unlabelled(TdExact, LayoutYes), r>>] :
                  r \in SecondCellRows}

InitLookup ==
    /\ pc = "parsed"
    /\ soup \in LookupSoups
    /\ rows = <<>>
    /\ log = <<>>
    /\ txt = <<>>
    /\ norm = <<>>
    /\ args = NoArgs
    /\ results = EmptyDict
    /\ filters = <<>>
    /\ Idle

\* radios = RadioMatrix(soup)
Construct ==
    /\ pc = "parsed"
    /\ rows' = _build_rows_cache(soup)
    /\ pc' = "indexed"
    /\ UNCHANGED <<txt, norm, soup, log, args, results>>
    /\ UNCHANGED <<process, batch, http>>

Call(fn, fragment, outcome) ==
    [fn |-> fn, fragment |-> fragment, outcome |-> outcome]

\* radios._radio_yes_no(fragment)
Query(fragment) ==
    /\ pc = "indexed"
    /\ Len(log) < MaxQueries
    /\ log' = Append(log, Call("_radio_yes_no", fragment,
                               _radio_yes_no(rows, fragment)))
    /\ UNCHANGED <<pc, txt, norm, soup, rows, args, results>>
    /\ UNCHANGED <<process, batch, http>>

\* get_radio_button_answer(soup, fragment): works on the tree, without the index
AdvQuery(fragment) ==
    /\ pc = "parsed"
    /\ log' = <<Call("get_radio_button_answer", fragment,
                     get_radio_button_answer(soup, fragment))>>
    /\ pc' = "answered"
    /\ UNCHANGED <<txt, norm, soup, rows, args, results>>
    /\ UNCHANGED <<process, batch, http>>

\* _section_text(soup, anchor_name)
SectionText(anchor_name) ==
    /\ pc = "parsed"
    /\ log' = <<Call("_section_text", anchor_name, _section_text(soup, anchor_name))>>
    /\ pc' = "answered"
    /\ UNCHANGED <<txt, norm, soup, rows, args, results>>
    /\ UNCHANGED <<process, batch, http>>

QueryAny == \E f \in Fragments : Query(f)

SectionTextAny == \E a \in AnchorNames : SectionText(a)

AdvQueryAny == \E f \in Fragments : AdvQuery(f)

NextLookup == Construct \/ QueryAny \/ AdvQueryAny \/ SectionTextAny

SpecLookup == InitLookup /\ [][NextLookup]_vars

(***************************************************************************)
(* Vocabulary of the claims about the resolver.                            *)
(***************************************************************************)
\* the RadioMatrix._radio_yes_no calls made so far
RadioCalls == {k \in 1..Len(log) : log[k].fn = "_radio_yes_no"}

\* index of the first indexed row whose label holds the normalised fragment,
\* 0 when no label does
FirstHolding(fragment) ==
    LET held == {i \in 1..Len(rows) : In(_normalise(fragment), rows[i].label)}
    IN  IF held = {} THEN 0 ELSE CHOOSE i \in held : \A j \in held : i <= j

\* the tri-state answer a text stands for: "yes" and "no" compared without case
Decide(text) ==
    IF strip(lower(text)) = lower(Yes) THEN "Yes"
    ELSE IF strip(lower(text)) = lower(No) THEN "No"
    ELSE "Unclear"

IsBlankText(node) == isinstance_str(node) /\ strip(node.string) = <<>>

\* index of the first non-blank text node after position m, 0 when none
FirstTextAfter(children, m) ==
    LET found == {j \in (m + 1)..Len(children) :
                     isinstance_str(children[j]) /\ ~IsBlankText(children[j])}
    IN  IF found = {} THEN 0 ELSE CHOOSE j \in found : \A k \in found : j <= k

(***************************************************************************)
(* C2.  For the first row matching a fragment: marker immediately followed *)
(* by "Yes" gives Yes, by "No" gives No; no selected marker gives          *)
(* Unclear; marker followed by a text that is neither "yes" nor "no"       *)
(* (such as "N/A") gives Unclear.                                          *)
(***************************************************************************)
C2_RadioFourCases ==
    \A k \in RadioCalls :
        LET i == FirstHolding(log[k].fragment)
            row == rows[i].row
            m == select_one(row)
            word == _bool_to_word(log[k].outcome)
        IN  i # 0 =>
              /\ m = 0 => word = "Unclear"
              /\ (/\ m # 0
                  /\ m < Len(row.children)
                  /\ isinstance_str(row.children[m + 1])
                  /\ ~IsBlankText(row.children[m + 1]))
                    => word = Decide(row.children[m + 1].string)

(***************************************************************************)
(* C3.  First-match tie-break: the answer is decided only by the first     *)
(* indexed row whose label holds the fragment, in document order, also     *)
(* when that row has no selected marker and a later one has; and it is     *)
(* the same whatever was queried before.                                   *)
(***************************************************************************)
C3_FirstMatchWins ==
    /\ \A k \in RadioCalls :
          LET i == FirstHolding(log[k].fragment)
          IN  log[k].outcome =
                IF i = 0 THEN None
                ELSE _radio_yes_no(<<rows[i]>>, log[k].fragment)
    /\ \A k, l \in RadioCalls :
          log[k].fragment = log[l].fragment => log[k].outcome = log[l].outcome

\* two rows hold the fragment, the first has no selected marker, the second
\* has one, and the fragment was queried after another fragment
C3_Witness ==
    /\ Len(log) = 2
    /\ log[1].fn = "_radio_yes_no" /\ log[2].fn = "_radio_yes_no"
    /\ log[1].fragment = FragEcn /\ log[2].fragment = FragOptOut
    /\ Len(rows) = 2
    /\ In(_normalise(FragOptOut), rows[1].label)
    /\ In(_normalise(FragOptOut), rows[2].label)
    /\ select_one(rows[1].row) = 0
    /\ select_one(rows[2].row) # 0
    /\ log[2].outcome = None

(***************************************************************************)
(* C4.  A row matches a fragment only if its normalised label equals the   *)
(* normalised fragment, or holds it and begins with a letter and a period; *)
(* a row whose label merely holds the fragment is not a match.             *)
(***************************************************************************)
Lettered(label) ==
    /\ Len(label) >= 2
    /\ \E i \in 1..Len(LowerCase) : LowerCase[i] = label[1]
    /\ label[2] = "."

Matches(label, frag) == label = frag \/ (In(frag, label) /\ Lettered(label))

FirstMatching(fragment) ==
    LET hit == {i \in 1..Len(rows) : Matches(rows[i].label, _normalise(fragment))}
    IN  IF hit = {} THEN 0 ELSE CHOOSE i \in hit : \A j \in hit : i <= j

C4_MatchRule ==
    \A k \in RadioCalls :
        LET i == FirstMatching(log[k].fragment)
        IN  log[k].outcome =
              IF i = 0 THEN None
              ELSE _radio_yes_no(<<rows[i]>>, log[k].fragment)

(***************************************************************************)
(* C5.  A matched row with a selected marker and no text after it (the     *)
(* marker is the last node, or only blank text follows) resolves to        *)
(* Unclear, never Yes or No.                                               *)
(***************************************************************************)
C5_MarkerWithoutText ==
    \A k \in RadioCalls :
        LET i == FirstHolding(log[k].fragment)
            row == rows[i].row
            m == select_one(row)
        IN  (/\ i # 0
             /\ m # 0
             /\ \A j \in (m + 1)..Len(row.children) : IsBlankText(row.children[j]))
                => log[k].outcome = None

(***************************************************************************)
(* C6.  After the selected marker the resolver walks the following         *)
(* siblings, skipping blank text and non-text nodes, and the first         *)
(* non-empty text node decides: marker, element or blank text, "Yes"       *)
(* resolves to Yes.                                                        *)
(***************************************************************************)
C6_WalksSiblings ==
    \A k \in RadioCalls :
        LET i == FirstHolding(log[k].fragment)
            row == rows[i].row
            m == select_one(row)
            t == FirstTextAfter(row.children, m)
        IN  (i # 0 /\ m # 0 /\ t > m + 1)
                => /\ log[k].outcome \in {"True", "False", None}
                   /\ _bool_to_word(log[k].outcome) = Decide(row.children[t].string)

(***************************************************************************)
(* seminar_parse.py: the feature tables                                    *)
(***************************************************************************)
\* the keys of REGEX_FEATURES; the patterns are searched in the raw text, and
\* soup.hits says which of them are found
REGEX_FEATURES ==
    {"offers_hosted_pool", "supports_iois", "custom_order_types",
     "market_data_feed_available"}

\* key -> label fragment.  Each question sentence is cut down to a few of its
\* characters: what the matcher can see of a fragment is kept (upper case,
\* a hyphen, the lettered prefix "a." or "b." of four of them) and, as in the
\* source, no fragment is part of another.
YES_NO_QUESTIONS ==
    [
       subscriber_opt_out_bdo             |-> <<"o", "p", "t", " ", "o", "u", "t", " ", "B", "-", "D">>,
       subscriber_opt_out_affiliate       |-> <<"a", "n", " ", "A", "f", "f">>,
       counterparty_selection_supported   |-> <<"a", ".", " ", "C", "a", "n">>,
       counterparty_selection_uniform     |-> <<"b", ".", " ", "1", "4", "(", "a", ")">>,
       internal_trading_allowed           |-> <<"A", "r", "e", " ", "u", "n", "i", "t", "s">>,
       affiliate_access_to_ats            |-> <<"A", "r", "e", " ", "A", "f", "f">>,
       routing_to_affiliate_venue         |-> <<"r", "o", "u", "t", "e", "d">>,
       ecn_status                         |-> <<"E", "C", "N">>,
       display_to_persons                 |-> <<"k", "n", "o", "w", "n">>,
       display_procedures_uniform         |-> <<"1", "5", "(", "b", ")">>,
       supports_iois                      |-> <<"I", "O", "I", "s">>,
       ioi_uniform_treatment              |-> <<"b", ".", " ", "9", "(", "a", ")">>,
       segmentation_supported             |-> <<"t", "i", "e", "r", "s">>,
       segmentation_uniform               |-> <<"t", "h", "e", " ", "s", "a", "m", "e">>,
       segmentation_customer_flag         |-> <<"c", "u", "s", "t", "o", "m", "e", "r">>,
       segmentation_disclosed             |-> <<"d", "i", "s", "c", "l", "o", "s", "e">>,
       segmentation_disclosure_uniform    |-> <<"1", "3", "(", "d", ")">>
    ]

(***************************************************************************)
(* seminar_parse.py: the composers.  Each returns the value it composes    *)
(* and the result dict without the atomic keys it deletes.                 *)
(***************************************************************************)
OptOutBoth == "Yes &mdash; Subscriber can opt out of both the ATS operator and its affiliates"
OptOutOperatorOnly == "Yes &mdash; Subscriber can opt out of ATS operator but not affiliates"
OptOutAffiliatesOnly == "Yes &mdash; Subscriber can opt out of affiliates but not ATS operator"
OptOutNeither == "No &mdash; Subscriber cannot opt out from either"

\* the if-chain written with truthiness (`if bdo and aff`, `if bdo and not
\* aff`, ...) in place of `is True` / `is False`
opt_out_sentence_truthy(bdo, aff) ==
    IF bdo = "True" /\ aff = "True" THEN OptOutBoth
    ELSE IF bdo = "True" /\ aff # "True" THEN OptOutOperatorOnly
    ELSE IF bdo # "True" /\ aff = "True" THEN OptOutAffiliatesOnly
    ELSE IF bdo = "False" /\ aff = "False" THEN OptOutNeither
    ELSE "Unclear"

\* the if-chain of _subscriber_opt_out over the two answers
opt_out_sentence(bdo, aff) ==
    IF bdo = "True" /\ aff = "True" THEN OptOutBoth
    ELSE IF bdo = "True" /\ aff = "False" THEN OptOutOperatorOnly
    ELSE IF bdo = "False" /\ aff = "True" THEN OptOutAffiliatesOnly
    ELSE IF bdo = "False" /\ aff = "False" THEN OptOutNeither
    ELSE "Unclear"

\* _subscriber_opt_out asking the operator question twice
_subscriber_opt_out_one_fragment(res, radios) ==
    LET bdo == _radio_yes_no(radios, YES_NO_QUESTIONS["subscriber_opt_out_bdo"])
    IN  [results |-> Del(Del(res, "subscriber_opt_out_bdo"),
                         "subscriber_opt_out_affiliate"),
         value |-> opt_out_sentence(bdo, bdo)]

_subscriber_opt_out(res, radios) ==
    LET bdo == _radio_yes_no(radios, YES_NO_QUESTIONS["subscriber_opt_out_bdo"])
        aff == _radio_yes_no(radios, YES_NO_QUESTIONS["subscriber_opt_out_affiliate"])
    IN  [results |-> Del(Del(res, "subscriber_opt_out_bdo"),
                         "subscriber_opt_out_affiliate"),
         value |-> opt_out_sentence(bdo, aff)]

\* adv_seminar_parse.extract_opt_out_logic: the same if-chain over the answers
\* of get_radio_button_answer, with a sentence of its own for the last case
OptOutUnclear ==
    "Unclear &mdash; at least one of the two answers was not found or could not be parsed"

extract_opt_out_logic(sp) ==
    LET a == get_radio_button_answer(sp, YES_NO_QUESTIONS["subscriber_opt_out_bdo"])
        b == get_radio_button_answer(sp, YES_NO_QUESTIONS["subscriber_opt_out_affiliate"])
    IN  IF a = "True" /\ b = "True" THEN OptOutBoth
        ELSE IF a = "True" /\ b = "False" THEN OptOutOperatorOnly
        ELSE IF a = "False" /\ b = "True" THEN OptOutAffiliatesOnly
        ELSE IF a = "False" /\ b = "False" THEN OptOutNeither
        ELSE OptOutUnclear

\* f"{summary} &mdash; {what} are {'uniform' if uniform else 'not uniform'}":
\* only True is truthy
uniformity_sentence(summary, what, uniform) ==
    summary \o " &mdash; " \o what \o " are "
        \o (IF uniform = "True" THEN "uniform" ELSE "not uniform")

\* _counterparty_selection that deletes ioi_uniform_treatment in place of
\* counterparty_selection_uniform
_counterparty_selection_wrong_key(res, radios) ==
    LET supported ==
            _radio_yes_no(radios, YES_NO_QUESTIONS["counterparty_selection_supported"])
        uniform ==
            _radio_yes_no(radios, YES_NO_QUESTIONS["counterparty_selection_uniform"])
    IN  [results |-> Del(Del(res, "counterparty_selection_supported"),
                         "ioi_uniform_treatment"),
         value |-> uniformity_sentence(_bool_to_word(supported), "procedures", uniform)]

\* _counterparty_selection without its second `del`
_counterparty_selection_keeping(res, radios) ==
    LET supported ==
            _radio_yes_no(radios, YES_NO_QUESTIONS["counterparty_selection_supported"])
        uniform ==
            _radio_yes_no(radios, YES_NO_QUESTIONS["counterparty_selection_uniform"])
    IN  [results |-> Del(res, "counterparty_selection_supported"),
         value |-> uniformity_sentence(_bool_to_word(supported), "procedures", uniform)]

_counterparty_selection(res, radios) ==
    LET supported ==
            _radio_yes_no(radios, YES_NO_QUESTIONS["counterparty_selection_supported"])
        uniform ==
            _radio_yes_no(radios, YES_NO_QUESTIONS["counterparty_selection_uniform"])
    IN  [results |-> Del(Del(res, "counterparty_selection_supported"),
                         "counterparty_selection_uniform"),
         value |-> uniformity_sentence(_bool_to_word(supported), "procedures", uniform)]

\* " ".join(summary_parts)
RECURSIVE join(_, _)
join(sep, parts) ==
    IF parts = <<>> THEN ""
    ELSE IF Len(parts) = 1 THEN parts[1]
    ELSE parts[1] \o sep \o join(sep, Tail(parts))

extract_internal_trading_access(radios) ==
    LET a == _radio_yes_no(radios, YES_NO_QUESTIONS["internal_trading_allowed"])
        b == _radio_yes_no(radios, YES_NO_QUESTIONS["affiliate_access_to_ats"])
        c == _radio_yes_no(radios, YES_NO_QUESTIONS["routing_to_affiliate_venue"])
        pa == IF a = "True"
                THEN <<"ATS operator&rsquo;s business units can trade on the ATS.">>
              ELSE IF a = "False"
                THEN <<"ATS operator&rsquo;s business units are not allowed to trade on the ATS.">>
              ELSE <<>>
        pb == IF b = "True" THEN <<"Affiliates can also send orders into the ATS.">>
              ELSE IF b = "False"
                THEN <<"Affiliates are not allowed to send orders into the ATS.">>
              ELSE <<>>
        pcc == IF c = "True" THEN <<"ATS can route orders to affiliated venues.">>
               ELSE IF c = "False" THEN <<"ATS cannot route orders to affiliated venues.">>
               ELSE <<>>
    IN  [internal_trading_allowed |-> _bool_to_word(a),
         affiliate_access_to_ats |-> _bool_to_word(b),
         routing_to_affiliate_venue |-> _bool_to_word(c),
         trading_access_summary |-> join(" ", pa \o pb \o pcc)]

\* _ioi_support whose summary is Yes when the presence pattern matched
_ioi_support_or_presence(sp, res, radios) ==
    LET has_support == _radio_yes_no(radios, YES_NO_QUESTIONS["supports_iois"])
        uniform == _radio_yes_no(radios, YES_NO_QUESTIONS["ioi_uniform_treatment"])
    IN  [results |-> Del(Del(res, "supports_iois"), "ioi_uniform_treatment"),
         value |-> uniformity_sentence(IF "supports_iois" \in sp.hits THEN "Yes"
                                       ELSE _bool_to_word(has_support),
                                       "terms and conditions", uniform)]

_ioi_support(sp, res, radios) ==
    LET has_support == _radio_yes_no(radios, YES_NO_QUESTIONS["supports_iois"])
        uniform == _radio_yes_no(radios, YES_NO_QUESTIONS["ioi_uniform_treatment"])
    IN  [results |-> Del(Del(res, "supports_iois"), "ioi_uniform_treatment"),
         value |-> uniformity_sentence(_bool_to_word(has_support),
                                       "terms and conditions", uniform)]

(***************************************************************************)
(* seminar_parse.py: order types (Item 7).  A key is kept both as the str  *)
(* that names its feature and as the characters that are compared with     *)
(* the tokens found in the text.                                           *)
(***************************************************************************)
\* key -> patterns, in the order of the dict literal
ORDER_TYPE_PATTERNS ==
    <<
      [key |-> "midpoint", chars |-> <<"m", "i", "d", "p", "o", "i", "n", "t">>,
       patterns |-> <<
            Lit(<<"m", "i", "d", " ", "p", "o", "i", "n", "t", " ", "p", "e", "g">>),
            Lit(<<"m", "i", "d", " ", "p", "e", "g">>),
            Lit(<<"m", "i", "d", "p", "o", "i", "n", "t", " ", "p", "e", "g">>),
            Lit(<<"m", "p", " ", "p", "e", "g">>)>>],
      [key |-> "market_peg", chars |-> <<"m", "a", "r", "k", "e", "t", "_", "p", "e", "g">>,
       patterns |-> <<
            Lit(<<"m", "a", "r", "k", "e", "t", " ", "p", "e", "g">>)>>],
      [key |-> "primary_peg", chars |-> <<"p", "r", "i", "m", "a", "r", "y", "_", "p", "e", "g">>,
       patterns |-> <<
            Lit(<<"p", "r", "i", "m", "a", "r", "y", " ", "p", "e", "g">>)>>],
      [key |-> "vwap", chars |-> <<"v", "w", "a", "p">>,
       patterns |-> <<
            Lit(<<"v", "w", "a", "p">>)>>],
      [key |-> "post_only", chars |-> <<"p", "o", "s", "t", "_", "o", "n", "l", "y">>,
       patterns |-> <<
            Lit(<<"p", "o", "s", "t">>) \o <<Opt({" "})>> \o Lit(<<"o", "n", "l", "y">>),
            Lit(<<"a", "d", "d", " ", "l", "i", "q", "u", "i", "d", "i", "t", "y", " ", "o", "n", "l",
          "y">>),
            <<WordBoundary>> \o Lit(<<"a", "l", "o">>) \o <<WordBoundary>>>>],
      [key |-> "conditional", chars |-> <<"c", "o", "n", "d", "i", "t", "i", "o", "n", "a", "l">>,
       patterns |-> <<
            Lit(<<"c", "o", "n", "d", "i", "t", "i", "o", "n", "a", "l", " ", "o", "r", "d", "e", "r">>),
            Lit(<<"f", "i", "r", "m", " ", "u", "p">>),
            Lit(<<"f", "i", "r", "m", "-", "u", "p">>)>>],
      [key |-> "displayed", chars |-> <<"d", "i", "s", "p", "l", "a", "y", "e", "d">>,
       patterns |-> <<
            Lit(<<"d", "i", "s", "p", "l", "a", "y", "e", "d", " ", "o", "r", "d", "e", "r">>),
            Lit(<<"n", "o", "n", " ", "d", "i", "s", "p", "l", "a", "y", "e", "d">>)>>],
      [key |-> "market", chars |-> <<"m", "a", "r", "k", "e", "t">>,
       patterns |-> <<
            Lit(<<"m", "a", "r", "k", "e", "t", " ", "o", "r", "d", "e", "r">>)>>],
      [key |-> "limit", chars |-> <<"l", "i", "m", "i", "t">>,
       patterns |-> <<
            Lit(<<"l", "i", "m", "i", "t", " ", "o", "r", "d", "e", "r">>)>>],
      [key |-> "iceberg", chars |-> <<"i", "c", "e", "b", "e", "r", "g">>,
       patterns |-> <<
            Lit(<<"i", "c", "e">>) \o <<Opt({" "})>> \o Lit(<<"b", "e", "r", "g">>),
            Lit(<<"r", "e", "s", "e", "r", "v", "e", " ", "o", "r", "d", "e", "r">>),
            Lit(<<"h", "i", "d", "d", "e", "n", " ", "s", "i", "z", "e">>)>>],
      [key |-> "discretionary", chars |-> <<"d", "i", "s", "c", "r", "e", "t", "i", "o", "n", "a", "r",
                                "y">>,
       patterns |-> <<
            Lit(<<"d", "i", "s", "c", "r", "e", "t", "i", "o", "n", "a", "r", "y", " ", "o", "r", "d",
          "e", "r">>),
            Lit(<<"d", "i", "s", "c">>) \o <<Opt({" "})>> \o Lit(<<"o", "r", "d", "e", "r">>),
            Lit(<<"d", "q", "r">>)>>]>>

\* re.compile(rf"\b{p}\b", re.I) for every pattern
ORDER_TYPE_REGEXES ==
    AsTuple([k \in 1..Len(ORDER_TYPE_PATTERNS) |->
        AsTuple([j \in 1..Len(ORDER_TYPE_PATTERNS[k].patterns) |->
            <<<<WordBoundary>> \o ORDER_TYPE_PATTERNS[k].patterns[j] \o <<WordBoundary>>>>])])

\* [A-Z0-9+/.-]
TokenChars == Letters \cup Digits \cup {"+", "/", ".", "-"}

\* \b([A-Z0-9+/.-]{3,})\s+(?:order(?:s)?|peg(?:ged)?|order\s+type|orders\s+type[s]?)\b
_UNKNOWN_PATTERN ==
    LET token == <<WordBoundary, One(TokenChars), One(TokenChars), Plus(TokenChars)>>
                    \o Spaces
        tail(p) == token \o p \o <<WordBoundary>>
    IN  <<tail(Lit(<<"o", "r", "d", "e", "r">>) \o <<Opt({"s"})>>),
          tail(Lit(<<"p", "e", "g", "g", "e", "d">>)),
          tail(Lit(<<"p", "e", "g">>)),
          tail(Lit(<<"o", "r", "d", "e", "r">>) \o Spaces \o Lit(<<"t", "y", "p", "e">>)),
          tail(Lit(<<"o", "r", "d", "e", "r", "s">>) \o Spaces \o Lit(<<"t", "y", "p", "e">>) \o <<Opt({"s"})>>)>>

\* the words that are never reported as an unknown order type
STOP ==
    {<<"T", "H", "E">>,
     <<"A", "N", "D">>,
     <<"F", "O", "R">>,
     <<"U", "P", "O", "N">>,
     <<"W", "H", "I", "C", "H">>,
     <<"E", "A", "C", "H">>,
     <<"O", "T", "H", "E", "R">>,
     <<"S", "U", "C", "H">>,
     <<"T", "H", "E", "S", "E">>,
     <<"T", "H", "R", "E", "E">>,
     <<"A", "N", "O", "T", "H", "E", "R">>,
     <<"D", "A", "Y">>,
     <<"B", "U", "Y">>,
     <<"S", "E", "L", "L">>,
     <<"F", "I", "R", "M">>,
     <<"O", "R", "D", "E", "R">>,
     <<"O", "R", "D", "E", "R", "S">>,
     <<"L", "I", "M", "I", "T">>,
     <<"M", "A", "R", "K", "E", "T">>,
     <<"P", "R", "I", "M", "A", "R", "Y">>,
     <<"P", "E", "G", "G", "E", "D">>,
     <<"A", "R", "R", "I", "V", "I", "N", "G">>,
     <<"F", "O", "L", "L", "O", "W", "I", "N", "G">>,
     <<"I", "N", "C", "O", "M", "P", "L", "E", "T", "E">>,
     <<"N", "E", "C", "E", "S", "S", "A", "R", "Y">>,
     <<"C", "E", "N", "T", "E", "R", "S", ".">>,
     <<"C", "O", "N", "N", "E", "C", "T", "I", "V", "I", "T", "Y", ".">>,
     <<"C", "O", "N", "T", "R", "A", "-", "S", "I", "D", "E">>,
     <<"A", "T", "T", "R", "I", "B", "U", "T", "E", "S">>}

\* the str "None"
NoneWord == <<"N", "o", "n", "e">>

\* m.group(1) of a match that starts with its group: the characters up to the
\* first one outside the class
RECURSIVE RunEnd(_, _, _)
RunEnd(s, i, class) ==
    IF i <= Len(s) /\ LowerChar(s[i]) \in class THEN RunEnd(s, i + 1, class) ELSE i

group1(s, m, class) == SubSeq(s, m.start, RunEnd(s, m.start, class) - 1)

\* the members of a list
Range(l) == {l[i] : i \in 1..Len(l)}

RECURSIVE Concat(_)
Concat(lists) == IF lists = <<>> THEN <<>> ELSE Head(lists) \o Concat(Tail(lists))

\* sorted(l) on a list of str: duplicates stay
RECURSIVE sorted_list(_)
sorted_list(l) ==
    IF l = <<>> THEN <<>>
    ELSE LET least == CHOOSE i \in 1..Len(l) :
                          \A j \in 1..Len(l) : ~StrLess(l[j], l[i])
         IN  <<l[least]>>
               \o sorted_list(SubSeq(l, 1, least - 1) \o SubSeq(l, least + 1, Len(l)))

\* list(S) for a set of str: the iteration order of a set of str depends on the
\* hash seed of the process, so every order is possible
Orders(S) == {l \in [1..Cardinality(S) -> S] : Range(l) = S}

\* raw_hits whose loop over the keys ends at the first key that hit
raw_hits_first_key(text_norm) ==
    LET all == AsTuple([k \in 1..Len(ORDER_TYPE_REGEXES) |->
                   LET found(j) == search(ORDER_TYPE_REGEXES[k][j], text_norm)
                       hit == SelectSeq([j \in 1..Len(ORDER_TYPE_REGEXES[k]) |-> found(j)],
                                        LAMBDA m : m.start # 0)
                   IN  AsTuple([j \in 1..Len(hit) |-> group0(text_norm, hit[j])])])
    IN  AsTuple([k \in 1..Len(all) |->
                    IF \E e \in 1..(k - 1) : all[e] # <<>> THEN <<>> ELSE all[k]])

\* raw_hits: for every key, the texts its patterns found in text_norm
raw_hits(text_norm) ==
    AsTuple([k \in 1..Len(ORDER_TYPE_REGEXES) |->
        LET found(j) == search(ORDER_TYPE_REGEXES[k][j], text_norm)
            hit == SelectSeq([j \in 1..Len(ORDER_TYPE_REGEXES[k]) |-> found(j)],
                             LAMBDA m : m.start # 0)
        IN  AsTuple([j \in 1..Len(hit) |-> group0(text_norm, hit[j])])])

\* detected: the key, once for every pattern of the key that matched
detected(hits) ==
    Concat([k \in 1..Len(ORDER_TYPE_PATTERNS) |->
               [j \in 1..Len(hits[k]) |-> ORDER_TYPE_PATTERNS[k].chars]])

\* the set comprehensions of lines 296-304
unknown_tokens(item7_raw, keys) ==
    LET found == finditer(_UNKNOWN_PATTERN, item7_raw)
        tokens == {group1(item7_raw, found[i], TokenChars) : i \in 1..Len(found)}
    IN  {upper(tok) : tok \in {t \in tokens : lower(t) \notin Range(keys)}} \ STOP

\* order_type_features whose keys are f"{key}_orders"
order_type_features_unprefixed(hits, keys, unknown) ==
    LET supports ==
            [f \in {ORDER_TYPE_PATTERNS[k].key \o "_orders" :
                        k \in 1..Len(ORDER_TYPE_PATTERNS)} |->
                IF \E k \in 1..Len(ORDER_TYPE_PATTERNS) :
                      /\ f = ORDER_TYPE_PATTERNS[k].key \o "_orders"
                      /\ hits[k] # <<>>
                THEN "Yes" ELSE "No"]
        hit_keys == SelectSeq([k \in 1..Len(ORDER_TYPE_PATTERNS) |-> k],
                              LAMBDA k : hits[k] # <<>>)
        raw == AsTuple([i \in 1..Len(hit_keys) |->
                   ORDER_TYPE_PATTERNS[hit_keys[i]].chars \o <<":">>
                       \o JoinStr(<<"|">>, hits[hit_keys[i]])])
    IN  Update(supports,
          [custom_order_types_detected |->
               IF keys # <<>> \/ unknown # <<>> THEN "Yes" ELSE "No",
           custom_order_types_list |->
               JoinStr(<<",", " ">>, sorted_list(keys \o unknown)),
           custom_order_types_raw_matches |->
               IF raw = <<>> THEN NoneWord ELSE JoinStr(<<";", " ">>, raw),
           unrecognised_custom_orders |->
               IF unknown = <<>> THEN NoneWord ELSE JoinStr(<<",", " ">>, unknown)])

\* the feature dict, given the texts found, the keys detected and the list of
\* unknown tokens
order_type_features(hits, keys, unknown) ==
    LET supports ==
            [f \in {"supports_" \o ORDER_TYPE_PATTERNS[k].key \o "_orders" :
                        k \in 1..Len(ORDER_TYPE_PATTERNS)} |->
                IF \E k \in 1..Len(ORDER_TYPE_PATTERNS) :
                      /\ f = "supports_" \o ORDER_TYPE_PATTERNS[k].key \o "_orders"
                      /\ hits[k] # <<>>
                THEN "Yes" ELSE "No"]
        hit_keys == SelectSeq([k \in 1..Len(ORDER_TYPE_PATTERNS) |-> k],
                              LAMBDA k : hits[k] # <<>>)
        raw == AsTuple([i \in 1..Len(hit_keys) |->
                   ORDER_TYPE_PATTERNS[hit_keys[i]].chars \o <<":">>
                       \o JoinStr(<<"|">>, hits[hit_keys[i]])])
    IN  Update(supports,
          [custom_order_types_detected |->
               IF keys # <<>> \/ unknown # <<>> THEN "Yes" ELSE "No",
           custom_order_types_list |->
               JoinStr(<<",", " ">>, sorted_list(keys \o unknown)),
           custom_order_types_raw_matches |->
               IF raw = <<>> THEN NoneWord ELSE JoinStr(<<";", " ">>, raw),
           unrecognised_custom_orders |->
               IF unknown = <<>> THEN NoneWord ELSE JoinStr(<<",", " ">>, unknown)])

\* parse_order_type_features: the dicts it can return, one for every order in
\* which list() can list the set of unknown tokens
parse_order_type_features(item7_raw) ==
    LET hits == raw_hits(_normalise(item7_raw))
        keys == detected(hits)
    IN  {order_type_features(hits, keys, unknown) :
            unknown \in Orders(unknown_tokens(item7_raw, keys))}

(***************************************************************************)
(* seminar_parse.py: display and market-data feeds (Items 15, 5(a), 23)    *)
(***************************************************************************)
Quotes == {"'", "\""}

\* [A-Z0-9] and [A-Z0-9_-]
FeedHead == Letters \cup Digits
FeedTail == Letters \cup Digits \cup {"_", "-"}

\* ['\"]?([A-Z0-9][A-Z0-9_-]{1,})['\"]?\s+(?:depth[- ]of[- ]book\s+)?data\s+feed
CAP_FEED ==
    LET name == <<Opt(Quotes), One(FeedHead), Plus(FeedTail), Opt(Quotes)>> \o Spaces
        dash == <<One({"-", " "})>>
        data_feed == Lit(<<"d", "a", "t", "a">>) \o Spaces \o Lit(<<"f", "e", "e", "d">>)
    IN  <<name \o Lit(<<"d", "e", "p", "t", "h">>) \o dash \o Lit(<<"o", "f">>) \o dash \o Lit(<<"b", "o", "o", "k">>) \o Spaces \o data_feed,
          name \o data_feed>>

\* \b(\w+?)\s+data\s+feed\b
GENERIC_FEED ==
    <<<<WordBoundary, Plus(WordChars)>> \o Spaces \o Lit(<<"d", "a", "t", "a">>) \o Spaces \o Lit(<<"f", "e", "e", "d">>)
         \o <<WordBoundary>>>>

VENDORS ==
    <<<<"b", "l", "o", "o", "m", "b", "e", "r", "g">>,
      <<"p", "i", "c", "o">>,
      <<"e", "x", "e", "g", "y">>,
      <<"i", "c", "e">>,
      <<"c", "q", "s">>,
      <<"c", "q", "g">>,
      <<"t", "h", "e", "s", "y", "s">>,
      <<"e", "x", "t", "r", "a", "n", "e", "t">>,
      <<"s", "i", "p">>>>

\* (available to (all )?(participants|subscribers)|open to external
\* |full depth of book|via (?:VENDORS))
PUBLIC_HINTS ==
    <<Lit(<<"a", "v", "a", "i", "l", "a", "b", "l", "e", " ", "t", "o", " ", "a", "l", "l",
            " ", "p", "a", "r", "t", "i", "c", "i", "p", "a", "n", "t", "s">>),
      Lit(<<"a", "v", "a", "i", "l", "a", "b", "l", "e", " ", "t", "o", " ", "a", "l", "l",
            " ", "s", "u", "b", "s", "c", "r", "i", "b", "e", "r", "s">>),
      Lit(<<"a", "v", "a", "i", "l", "a", "b", "l", "e", " ", "t", "o", " ", "p", "a", "r",
            "t", "i", "c", "i", "p", "a", "n", "t", "s">>),
      Lit(<<"a", "v", "a", "i", "l", "a", "b", "l", "e", " ", "t", "o", " ", "s", "u", "b",
            "s", "c", "r", "i", "b", "e", "r", "s">>),
      Lit(<<"o", "p", "e", "n", " ", "t", "o", " ", "e", "x", "t", "e", "r", "n", "a", "l">>),
      Lit(<<"f", "u", "l", "l", " ", "d", "e", "p", "t", "h", " ", "o", "f", " ", "b", "o",
            "o", "k">>)>>
        \o [v \in 1..Len(VENDORS) |-> Lit(<<"v", "i", "a", " ">>) \o Lit(VENDORS[v])]

\* (internal\s+(?:SOR|router|algo|tool)|internal\s+only|not\s+displayed
\* |aggregated\s+and\s+anonymized)
PRIVATE_HINTS ==
    <<Lit(<<"i", "n", "t", "e", "r", "n", "a", "l">>) \o Spaces \o Lit(<<"s", "o", "r">>),
      Lit(<<"i", "n", "t", "e", "r", "n", "a", "l">>) \o Spaces \o Lit(<<"r", "o", "u", "t", "e", "r">>),
      Lit(<<"i", "n", "t", "e", "r", "n", "a", "l">>) \o Spaces \o Lit(<<"a", "l", "g", "o">>),
      Lit(<<"i", "n", "t", "e", "r", "n", "a", "l">>) \o Spaces \o Lit(<<"t", "o", "o", "l">>),
      Lit(<<"i", "n", "t", "e", "r", "n", "a", "l">>) \o Spaces \o Lit(<<"o", "n", "l", "y">>),
      Lit(<<"n", "o", "t">>) \o Spaces \o Lit(<<"d", "i", "s", "p", "l", "a", "y", "e", "d">>),
      Lit(<<"a", "g", "g", "r", "e", "g", "a", "t", "e", "d">>) \o Spaces \o Lit(<<"a", "n", "d">>) \o Spaces \o Lit(<<"a", "n", "o", "n", "y", "m", "i", "z", "e", "d">>)>>

\* (data\s+feed|depth[- ]of[- ]book|ioi|fix|sor)
MECHANISM ==
    <<Lit(<<"d", "a", "t", "a">>) \o Spaces \o Lit(<<"f", "e", "e", "d">>),
      Lit(<<"d", "e", "p", "t", "h">>) \o <<One({"-", " "})>> \o Lit(<<"o", "f">>) \o <<One({"-", " "})>> \o Lit(<<"b", "o", "o", "k">>),
      Lit(<<"i", "o", "i">>), Lit(<<"f", "i", "x">>), Lit(<<"s", "o", "r">>)>>

_classify_public_private(text) ==
    IF search(PUBLIC_HINTS, text).start # 0 THEN "public_like"
    ELSE IF search(PRIVATE_HINTS, text).start # 0 THEN "private_like"
    ELSE "unclear"

_discover_feed_tokens(text) ==
    LET cap == finditer(CAP_FEED, text)
        generic == finditer(GENERIC_FEED, text)
        \* group(1) of CAP_FEED begins after the optional quote
        cap1(m) == LET g == IF text[m.start] \in Quotes THEN m.start + 1 ELSE m.start
                   IN  SubSeq(text, g, RunEnd(text, g, FeedTail) - 1)
    IN  sorted({upper(cap1(cap[i])) : i \in 1..Len(cap)}
                 \cup {upper(group1(text, generic[i], WordChars)) : i \in 1..Len(generic)})

\* soup.find("td", string=lambda s: s and "display procedures" in s.lower()),
\* then node.find_next("div", class_="fakeBox3"): the text of that div, in a
\* list, or the empty list.  The rows of the document precede its narrative.
display_block(sp) ==
    LET phrase == <<"d", "i", "s", "p", "l", "a", "y", " ", "p", "r", "o", "c", "e", "d", "u", "r", "e",
          "s">>
        node == {i \in 1..Len(sp.rows) :
                    \/ In(phrase, lower(sp.rows[i].td))
                    \/ In(phrase, lower(sp.rows[i].label_cell))}
        flat == Flatten(sp.body)
        div == {i \in 1..Len(flat) : flat[i].name = "div" /\ flat[i].attr = <<"fakeBox3">>}
    IN  IF node = {} \/ div = {} THEN <<>> ELSE <<get_text(flat[SetMin(div)])>>

\* the anchors whose sections _extract_display_features reads, in its order
DisplaySections == <<PartIII("15"), PartII("5"), PartIII("23")>>

UnspecifiedMechanism == <<"U", "n", "s", "p", "e", "c", "i", "f", "i", "e", "d", " ", "m", "e", "c", "h", "a",
          "n", "i", "s", "m">>

_extract_display_features(sp) ==
    LET txt_blocks == display_block(sp)
                        \o [i \in 1..Len(DisplaySections) |->
                               _section_text(sp, DisplaySections[i])]
        text == JoinStr(<<" ">>, txt_blocks)
        txt_norm == _normalise(text)
        feeds == _discover_feed_tokens(text)
        mech_re == search(MECHANISM, text)
    IN  [display_mechanism |->
             IF mech_re.start # 0 THEN group0(text, mech_re) ELSE UnspecifiedMechanism,
         display_public_private_guess |-> _classify_public_private(txt_norm),
         display_feed_names |->
             IF feeds = <<>> THEN NoneWord ELSE JoinStr(<<",", " ">>, feeds)]

(***************************************************************************)
(* seminar_parse.py: segmentation (Item 13)                                *)
(***************************************************************************)
\* "|".join(SEG_TAG_PATTERNS), re.I: the groups (type|class|segmentation) and
\* (token|label|category) are written out as alternatives, in their order
_seg_token_rx ==
    <<Lit(<<"t", "a", "k", "e", "r">>) \o Spaces \o Lit(<<"l", "e", "v", "e", "l">>),
      Lit(<<"t", "a", "k", "e", "r">>) \o Spaces \o Lit(<<"c", "a", "t", "e", "g", "o", "r", "y">>),
      Lit(<<"i", "n", "c", "l", "u", "s", "i", "o", "n">>) \o Spaces \o Lit(<<"l", "e", "v", "e", "l">>),
      Lit(<<"c", "o", "n", "t", "r", "a">>) \o Spaces \o Lit(<<"c", "a", "t", "e", "g", "o", "r", "y">>),
      Lit(<<"c", "o", "u", "n", "t", "e", "r", "p", "a", "r", "t", "y">>) \o Spaces \o Lit(<<"c", "l", "a", "s", "s", "i", "f", "i", "c", "a", "t", "i", "o", "n">>),
      Lit(<<"m", "a", "r", "k">>) \o <<Opt({"-", " "})>> \o Lit(<<"o", "u", "t">>) \o Spaces \o Lit(<<"a", "n", "a", "l", "y", "s", "i", "s">>),
      Lit(<<"c", "a", "t", "e", "g", "o", "r", "y">>) \o Spaces \o Lit(<<"i", "d">>),
      Lit(<<"t", "a", "k", "e", "r">>) \o Spaces \o Lit(<<"t", "o", "k", "e", "n">>),
      Lit(<<"o", "r", "d", "e", "r">>) \o Spaces \o Lit(<<"t", "y", "p", "e">>) \o Spaces \o Lit(<<"s", "e", "g", "m", "e", "n", "t", "a", "t", "i", "o", "n">>),
      Lit(<<"p", "a", "r", "t", "i", "c", "i", "p", "a", "n", "t">>) \o Spaces \o Lit(<<"t", "y", "p", "e">>),
      Lit(<<"p", "a", "r", "t", "i", "c", "i", "p", "a", "n", "t">>) \o Spaces \o Lit(<<"c", "l", "a", "s", "s">>),
      Lit(<<"p", "a", "r", "t", "i", "c", "i", "p", "a", "n", "t">>) \o Spaces \o Lit(<<"s", "e", "g", "m", "e", "n", "t", "a", "t", "i", "o", "n">>),
      Lit(<<"c", "o", "u", "n", "t", "e", "r", "p", "a", "r", "t", "y">>) \o Spaces \o Lit(<<"r", "e", "s", "t", "r", "i", "c", "t", "i", "o", "n">>),
      Lit(<<"s", "e", "g", "m", "e", "n", "t", "a", "t", "i", "o", "n">>) \o Spaces \o Lit(<<"t", "o", "k", "e", "n">>),
      Lit(<<"s", "e", "g", "m", "e", "n", "t", "a", "t", "i", "o", "n">>) \o Spaces \o Lit(<<"l", "a", "b", "e", "l">>),
      Lit(<<"s", "e", "g", "m", "e", "n", "t", "a", "t", "i", "o", "n">>) \o Spaces \o Lit(<<"c", "a", "t", "e", "g", "o", "r", "y">>)>>

\* the length after which the narrative is cut
NarrativeLimit == 400

NoneDetected == <<"N", "o", "n", "e", " ", "d", "e", "t", "e", "c", "t", "e", "d">>
NoNarrative == <<"N", "o", " ", "n", "a", "r", "r", "a", "t", "i", "v", "e", " ", "p", "r", "o", "v",
          "i", "d", "e", "d">>

SegmentationKeys ==
    {"segmentation_supported", "segmentation_uniform", "segmentation_customer_flag",
     "segmentation_disclosed", "segmentation_disclosure_uniform"}

\* _extract_segmentation_features with ", ".join(tokens) and no marker
_extract_segmentation_features_plain_join(sp, res) ==
    LET prose == _item13_text(sp)
        found == finditer(_seg_token_rx, prose)
        tokens == sorted({lower(group0(prose, found[i])) : i \in 1..Len(found)})
    IN  Update([k \in SegmentationKeys |-> IF k \in DOMAIN res THEN res[k] ELSE "Unclear"],
          [segmentation_tags |-> JoinStr(<<",", " ">>, tokens),
           data_segmentation_practices |->
               IF Len(prose) > NarrativeLimit
                 THEN SubSeq(prose, 1, NarrativeLimit) \o <<"&hellip;">>
               ELSE IF prose # <<>> THEN prose ELSE NoNarrative])

\* _extract_segmentation_features that writes segmentation_tags only when a
\* phrase was found
_extract_segmentation_features_tags_if_any(sp, res) ==
    LET prose == _item13_text(sp)
        found == finditer(_seg_token_rx, prose)
        tokens == sorted({lower(group0(prose, found[i])) : i \in 1..Len(found)})
        answers == [k \in SegmentationKeys |-> IF k \in DOMAIN res THEN res[k] ELSE "Unclear"]
        practices == IF Len(prose) > NarrativeLimit
                       THEN SubSeq(prose, 1, NarrativeLimit) \o <<"&hellip;">>
                     ELSE IF prose # <<>> THEN prose ELSE NoNarrative
    IN  IF tokens # <<>>
        THEN Update(answers, [segmentation_tags |-> JoinStr(<<",", " ">>, tokens),
                              data_segmentation_practices |-> practices])
        ELSE Update(answers, [data_segmentation_practices |-> practices])

_extract_segmentation_features(sp, res) ==
    LET prose == _item13_text(sp)
        found == finditer(_seg_token_rx, prose)
        tokens == sorted({lower(group0(prose, found[i])) : i \in 1..Len(found)})
    IN  Update([k \in SegmentationKeys |-> IF k \in DOMAIN res THEN res[k] ELSE "Unclear"],
          [segmentation_tags |->
               IF tokens # <<>> THEN JoinStr(<<",", " ">>, tokens) ELSE NoneDetected,
           data_segmentation_practices |->
               IF Len(prose) > NarrativeLimit
                 THEN SubSeq(prose, 1, NarrativeLimit) \o <<"&hellip;">>
               ELSE IF prose # <<>> THEN prose ELSE NoNarrative])

(***************************************************************************)
(* Specification of the master extractor, extract_features_from_html, on   *)
(* one filing.  A filing is either a form of up to MaxRows rows, each the  *)
(* row of one of six questions (the two opt-out, the two counterparty and  *)
(* the two IOI questions) with "Yes" selected, "No" selected, or the       *)
(* selected marker followed by an element, or a row of a question that     *)
(* lacks the label cell; or it is a narrative of one or two sections, an   *)
(* item anchor followed by a text or by a box that holds the text, with    *)
(* or without a row of the display question before it.   Each stage of    *)
(* the function is one action; an exception ends the call at the stage     *)
(* that raised it.  The calls of _section_text are recorded in log, and   *)
(* so is the opt-out sentence that adv_seminar_parse composes for the same *)
(* filing.                                                                 *)
(***************************************************************************)
AskedKeys ==
    {"subscriber_opt_out_bdo", "subscriber_opt_out_affiliate",
     "counterparty_selection_supported", "counterparty_selection_uniform",
     "supports_iois", "ioi_uniform_treatment"}

\* the label cell of a question: the question sentence with its question mark
LabelOf(key) == YES_NO_QUESTIONS[key] \o <<"?">>

LayoutDecorated == <<Checked, Span, Text(Yes)>>

FilingLayouts == {LayoutYes, LayoutNo, LayoutDecorated}

FilingRows ==
    {Row(LabelOf(k), ch) : k \in AskedKeys, ch \in FilingLayouts}
        \cup {Unlabelled(LabelOf("subscriber_opt_out_bdo"), LayoutYes)}

RECURSIVE FilingRowLists(_)
FilingRowLists(n) ==
    IF n = 0 THEN {<<>>}
    ELSE LET shorter == FilingRowLists(n - 1)
         IN  shorter \cup {Append(rs, r) : rs \in {t \in shorter : Len(t) = n - 1},
                                           r \in FilingRows}

\* what the filers write: order types, feeds, segmentation
OrderText == <<"M", "i", "d", " ", "P", "e", "g", ",", " ", "A", "B", "C", " ", "o", "r", "d",
               "e", "r", ",", " ", "X", "Y", "Z", " ", "p", "e", "g">>
FeedText == <<"t", "h", "e", " ", "'", "I", "Q", "X", "'", " ", "d", "a", "t", "a", " ", "f",
              "e", "e", "d", " ", "v", "i", "a", " ", "S", "I", "P">>
TagText == <<"T", "a", "k", "e", "r", " ", "L", "e", "v", "e", "l", ";", " ", "m", "a", "r",
             "k", "-", "o", "u", "t", " ", " ", "a", "n", "a", "l", "y", "s", "i", "s">>

NarrativeTexts == {OrderText, FeedText, TagText}

ItemAnchors == {PartIII("7"), PartIII("13"), PartIII("15"), PartIII("23"), PartII("5")}

Sections ==
    {<<Anchor(a), BText(t)>> : a \in ItemAnchors, t \in NarrativeTexts}
        \cup {<<Anchor(a), Div("fakeBox3", <<BText(t)>>)>> :
                  a \in ItemAnchors, t \in NarrativeTexts}

Narratives == Sections \cup {s1 \o s2 : s1 \in Sections, s2 \in Sections}

\* the row of the display question, with and without the label cell
DisplayRows ==
    {Row(<<"D", "i", "s", "p", "l", "a", "y", " ", "p", "r", "o", "c", "e", "d", "u", "r", "e",
           "s">>, LayoutYes),
     Unlabelled(<<"D", "i", "s", "p", "l", "a", "y", " ", "p", "r", "o", "c", "e", "d", "u",
                  "r", "e", "s">>, LayoutYes)}

\* re.search(REGEX_FEATURES[key], html, flags=re.IGNORECASE) on a form: the
\* label of the IOI question holds "IOIs", which the alternative iois? of the
\* supports_iois pattern finds; the other labels and the narratives hold no
\* match of any of the four patterns
Presence(rs) ==
    IF \E i \in 1..Len(rs) : rs[i].td = LabelOf("supports_iois")
      THEN {"supports_iois"} ELSE {}

\* filings that mention IOIs outside the form, without the IOI question
MentionFilings ==
    {[NoSoup EXCEPT !.rows = rs, !.hits = {"supports_iois"}] :
        rs \in {<<>>} \cup {<<Row(LabelOf("ioi_uniform_treatment"), ch)>> :
                                ch \in {LayoutYes, LayoutNo}}}

Filings ==
    {[NoSoup EXCEPT !.rows = rs, !.hits = Presence(rs)] : rs \in FilingRowLists(MaxRows)}
        \cup MentionFilings
        \cup {[NoSoup EXCEPT !.body = b] : b \in Narratives}
        \cup {[NoSoup EXCEPT !.rows = <<r>>, !.body = b] : r \in DisplayRows, b \in Sections}

Init ==
    /\ pc = "start"
    /\ soup \in Filings
    /\ args = NoArgs
    /\ rows = <<>>
    /\ log = <<>>
    /\ txt = <<>>
    /\ norm = <<>>
    /\ results = EmptyDict
    /\ filters = <<>>
    /\ Idle

\* warnings.filterwarnings(action, category=category): the entry is removed
\* from warnings.filters where it is, and put at the front
filterwarnings(fs, entry) == <<entry>> \o SelectSeq(fs, LAMBDA e : e # entry)

IgnoreXMLParsedAsHTML == [action |-> "ignore", category |-> "XMLParsedAsHTMLWarning"]

\* _get_soup: what the call leaves in warnings.filters; is_xml is
\* html.lstrip().startswith("<?xml") or "<ATS-N" in html[:300]
_get_soup_filters(sp, fs) ==
    IF sp.is_xml THEN filterwarnings(fs, IgnoreXMLParsedAsHTML) ELSE fs

\* `if ats_id:` and `if year:`: None, the empty str and the int 0 are falsy;
\* an int is written as its decimal digits
TruthyStr(value) == value # None /\ value # ""
TruthyInt(value) == value # None /\ value # "0"

\* lines 499-503: soup = _get_soup(html); radios = RadioMatrix(soup);
\* results = {} with ats_id and year when they are truthy
Load ==
    /\ pc = "start"
    /\ rows' = _build_rows_cache(soup)
    /\ results' =
          LET withId == IF TruthyStr(args.ats_id)
                          THEN Set(EmptyDict, "ats_id", args.ats_id) ELSE EmptyDict
          IN  IF TruthyInt(args.year) THEN Set(withId, "year", args.year) ELSE withId
    /\ pc' = "regex"
    /\ filters' = _get_soup_filters(soup, filters)
    /\ UNCHANGED <<txt, norm, soup, log, args>>
    /\ UNCHANGED <<suspended, batch, http>>

\* 4-a: results[key] = "Yes" if re.search(pattern, html) else "No"
RegexFeatures ==
    /\ pc = "regex"
    /\ results' = Update(results,
                         [k \in REGEX_FEATURES |-> IF k \in soup.hits THEN "Yes" ELSE "No"])
    /\ pc' = "radio"
    /\ UNCHANGED <<txt, norm, soup, rows, log, args>>
    /\ UNCHANGED <<process, batch, http>>

\* a radio stage whose resolver consumes the index: the first pair is dropped
\* from radios.rows once the questions are answered
RadioQuestions_consuming ==
    /\ pc = "radio"
    /\ LET answer == [k \in DOMAIN YES_NO_QUESTIONS |->
                         _radio_yes_no(rows, YES_NO_QUESTIONS[k])]
       IN  IF \E k \in DOMAIN answer : answer[k] = "TypeError"
           THEN /\ pc' = "TypeError"
                /\ UNCHANGED results
           ELSE /\ pc' = "opt_out"
                /\ results' = Update(results,
                                     [k \in DOMAIN answer |-> _bool_to_word(answer[k])])
    /\ rows' = IF rows = <<>> THEN rows ELSE Tail(rows)
    /\ UNCHANGED <<txt, norm, soup, log, args>>
    /\ UNCHANGED <<process, batch, http>>

\* 4-b: results[key] = _bool_to_word(radios._radio_yes_no(fragment)) for every
\* question; the first call that raises ends extract_features_from_html
RadioQuestions ==
    /\ pc = "radio"
    /\ LET answer == [k \in DOMAIN YES_NO_QUESTIONS |->
                         _radio_yes_no(rows, YES_NO_QUESTIONS[k])]
       IN  IF \E k \in DOMAIN answer : answer[k] = "TypeError"
           THEN /\ pc' = "TypeError"
                /\ UNCHANGED results
           ELSE /\ pc' = "opt_out"
                /\ results' = Update(results,
                                     [k \in DOMAIN answer |-> _bool_to_word(answer[k])])
    /\ UNCHANGED <<txt, norm, soup, rows, log, args>>
    /\ UNCHANGED <<process, batch, http>>

\* results["subscriber_opt_out_capability"] = _subscriber_opt_out(results, radios)
SubscriberOptOut ==
    /\ pc = "opt_out"
    /\ LET r == _subscriber_opt_out(results, rows)
       IN  results' = Set(r.results, "subscriber_opt_out_capability", r.value)
    /\ pc' = "counterparty"
    /\ UNCHANGED <<txt, norm, soup, rows, log, args>>
    /\ UNCHANGED <<process, batch, http>>

\* results["counterparty_selection"] = _counterparty_selection(results, radios)
CounterpartySelection ==
    /\ pc = "counterparty"
    /\ LET r == _counterparty_selection(results, rows)
       IN  results' = Set(r.results, "counterparty_selection", r.value)
    /\ pc' = "internal"
    /\ UNCHANGED <<txt, norm, soup, rows, log, args>>
    /\ UNCHANGED <<process, batch, http>>

\* results.update(extract_internal_trading_access(radios))
InternalTradingAccess ==
    /\ pc = "internal"
    /\ results' = Update(results, extract_internal_trading_access(rows))
    /\ pc' = "ioi"
    /\ UNCHANGED <<txt, norm, soup, rows, log, args>>
    /\ UNCHANGED <<process, batch, http>>

\* results["supports_iois"] = _ioi_support(soup, results, radios)
IoiSupport ==
    /\ pc = "ioi"
    /\ LET r == _ioi_support(soup, results, rows)
       IN  results' = Set(r.results, "supports_iois", r.value)
    /\ pc' = "order_type"
    /\ UNCHANGED <<txt, norm, soup, rows, log, args>>
    /\ UNCHANGED <<process, batch, http>>

\* results.update(parse_order_type_features(_item7_text(soup)))
OrderTypeFeatures ==
    /\ pc = "order_type"
    /\ \E features \in parse_order_type_features(_item7_text(soup)) :
          results' = Update(results, features)
    /\ pc' = "display"
    /\ UNCHANGED <<txt, norm, soup, rows, log, args>>
    /\ UNCHANGED <<process, batch, http>>

\* results.update(_extract_display_features(soup))
DisplayFeatures ==
    /\ pc = "display"
    /\ results' = Update(results, _extract_display_features(soup))
    /\ log' = log \o [i \in 1..Len(DisplaySections) |->
                         Call("_section_text", DisplaySections[i],
                              _section_text(soup, DisplaySections[i]))]
    /\ pc' = "segmentation"
    /\ UNCHANGED <<txt, norm, soup, rows, args>>
    /\ UNCHANGED <<process, batch, http>>

\* results.update(_extract_segmentation_features(soup, results)); return results
SegmentationFeatures ==
    /\ pc = "segmentation"
    /\ results' = Update(results, _extract_segmentation_features(soup, results))
    /\ pc' = "done"
    /\ UNCHANGED <<txt, norm, soup, rows, log, args>>
    /\ UNCHANGED <<process, batch, http>>

\* adv_seminar_parse.extract_features_from_file, line 147, on the same filing
\* once extract_features_from_html has returned or raised:
\* results["Subscriber opt-out capability"] = extract_opt_out_logic(soup)
ExtractOptOutLogic ==
    /\ pc \in {"done", "TypeError"}
    /\ \A c \in 1..Len(log) : log[c].fn # "extract_opt_out_logic"
    /\ log' = Append(log, Call("extract_opt_out_logic", <<>>, extract_opt_out_logic(soup)))
    /\ UNCHANGED <<pc, txt, norm, soup, rows, args, results>>
    /\ UNCHANGED <<process, batch, http>>

Next ==
    \/ Load
    \/ RegexFeatures
    \/ RadioQuestions
    \/ SubscriberOptOut
    \/ CounterpartySelection
    \/ InternalTradingAccess
    \/ IoiSupport
    \/ OrderTypeFeatures
    \/ DisplayFeatures
    \/ SegmentationFeatures
    \/ ExtractOptOutLogic

Spec == Init /\ [][Next]_vars

(***************************************************************************)
(* Vocabulary of the claims about the master extractor.                    *)
(***************************************************************************)
Stages ==
    <<"start", "regex", "radio", "opt_out", "counterparty", "internal", "ioi",
      "order_type", "display", "segmentation", "done">>

StageNo(stage) == CHOOSE i \in 1..Len(Stages) : Stages[i] = stage

\* the call has run the stage named `stage` to its end
Past(stage) ==
    /\ \E i \in 1..Len(Stages) : Stages[i] = pc
    /\ StageNo(pc) > StageNo(stage)

\* the tri-state answer of the resolver to the question of a key
Answer(key) == _bool_to_word(_radio_yes_no(rows, YES_NO_QUESTIONS[key]))

(***************************************************************************)
(* C7.  Once the document is parsed, stages 2-7 of                         *)
(* extract_features_from_html never raise, whatever the rows hold, also    *)
(* when the next sibling of a selected marker is an element.               *)
(***************************************************************************)
C7_StagesNeverRaise == pc # "TypeError"

(***************************************************************************)
(* C8.  Missing data is a default, not an error: when the document has no  *)
(* labelled row the row index is empty; a fragment that no indexed row     *)
(* contains resolves to Unknown (None, "Unclear" in the results); and      *)
(* _section_text returns "" for an anchor name that the document lacks.    *)
(***************************************************************************)
HasAnchor(sp, anchor_name) ==
    \E i \in 1..Len(Flatten(sp.body)) :
        Flatten(sp.body)[i].name = "a" /\ Flatten(sp.body)[i].attr = anchor_name

InNoRow(key) ==
    \A i \in 1..Len(rows) : ~In(_normalise(YES_NO_QUESTIONS[key]), rows[i].label)

C8_MissingDataDefaults ==
    /\ (pc # "start" /\ \A i \in 1..Len(soup.rows) : ~soup.rows[i].labelled)
          => rows = <<>>
    /\ pc # "start" =>
          \A key \in DOMAIN YES_NO_QUESTIONS :
              InNoRow(key) =>
                  /\ _radio_yes_no(rows, YES_NO_QUESTIONS[key]) = None
                  /\ pc = "opt_out" => results[key] = "Unclear"
    /\ \A c \in 1..Len(log) :
          (log[c].fn = "_section_text" /\ ~HasAnchor(soup, log[c].fragment))
              => log[c].outcome = <<>>

\* a call that has returned for a document whose one row lacks the label
\* cell and whose narrative has the anchor of Item 15 but not that of Item 23
C8_Witness ==
    /\ pc = "done"
    /\ soup.rows # <<>>
    /\ \A i \in 1..Len(soup.rows) : ~soup.rows[i].labelled
    /\ rows = <<>>
    /\ results["ecn_status"] = "Unclear"
    /\ HasAnchor(soup, PartIII("15"))
    /\ \E c \in 1..Len(log) :
          /\ log[c] = Call("_section_text", PartIII("15"), _section_text(soup, PartIII("15")))
          /\ log[c].outcome # <<>>
    /\ ~HasAnchor(soup, PartIII("23"))
    /\ \E c \in 1..Len(log) : log[c] = Call("_section_text", PartIII("23"), <<>>)

(***************************************************************************)
(* C9.  The opt-out composers are an exhaustive case analysis: (Yes,Yes),  *)
(* (Yes,No), (No,Yes), (No,No) give one fixed sentence each, four          *)
(* different ones, and every pair with an Unknown gives the "Unclear"      *)
(* result of the composer, for _subscriber_opt_out and for                 *)
(* extract_opt_out_logic alike.                                            *)
(***************************************************************************)
AdvAnswer(key) == get_radio_button_answer(soup, YES_NO_QUESTIONS[key])

C9_OptOutExhaustive ==
    /\ Past("opt_out") =>
          LET bdo == Answer("subscriber_opt_out_bdo")
              aff == Answer("subscriber_opt_out_affiliate")
              v == results["subscriber_opt_out_capability"]
          IN  /\ (bdo = "Yes" /\ aff = "Yes") => v = OptOutBoth
              /\ (bdo = "Yes" /\ aff = "No") => v = OptOutOperatorOnly
              /\ (bdo = "No" /\ aff = "Yes") => v = OptOutAffiliatesOnly
              /\ (bdo = "No" /\ aff = "No") => v = OptOutNeither
              /\ (bdo = "Unclear" \/ aff = "Unclear") => v = "Unclear"
    /\ \A c \in 1..Len(log) :
          log[c].fn = "extract_opt_out_logic" =>
              LET a == AdvAnswer("subscriber_opt_out_bdo")
                  b == AdvAnswer("subscriber_opt_out_affiliate")
                  v == log[c].outcome
              IN  /\ (a = "True" /\ b = "True") => v = OptOutBoth
                  /\ (a = "True" /\ b = "False") => v = OptOutOperatorOnly
                  /\ (a = "False" /\ b = "True") => v = OptOutAffiliatesOnly
                  /\ (a = "False" /\ b = "False") => v = OptOutNeither
                  /\ (a = None \/ b = None) => v = OptOutUnclear
    /\ Cardinality({OptOutBoth, OptOutOperatorOnly, OptOutAffiliatesOnly,
                    OptOutNeither, "Unclear", OptOutUnclear}) = 6

\* both composers have run on (Yes, Unknown)
C9_Witness ==
    /\ Past("opt_out")
    /\ Answer("subscriber_opt_out_bdo") = "Yes"
    /\ Answer("subscriber_opt_out_affiliate") = "Unclear"
    /\ results["subscriber_opt_out_capability"] = "Unclear"
    /\ AdvAnswer("subscriber_opt_out_bdo") = "True"
    /\ AdvAnswer("subscriber_opt_out_affiliate") = None
    /\ \E c \in 1..Len(log) :
          log[c].fn = "extract_opt_out_logic" /\ log[c].outcome = OptOutUnclear

(***************************************************************************)
(* C10.  The counterparty-selection and IOI-support composers are          *)
(* tri-state as well: when the uniformity answer is Unknown the composite  *)
(* value asserts neither "uniform" nor "not uniform", and "not uniform"    *)
(* is produced only when the uniformity answer is No.                      *)
(***************************************************************************)
Asserts(what, word) ==
    {summary \o " &mdash; " \o what \o " are " \o word :
        summary \in {"Yes", "No", "Unclear"}}

C10_UniformityTriState ==
    /\ Past("counterparty") =>
          LET u == Answer("counterparty_selection_uniform")
              v == results["counterparty_selection"]
          IN  /\ u = "Unclear" => v \notin Asserts("procedures", "uniform")
                                        \cup Asserts("procedures", "not uniform")
              /\ v \in Asserts("procedures", "not uniform") => u = "No"
    /\ Past("ioi") =>
          LET u == Answer("ioi_uniform_treatment")
              v == results["supports_iois"]
          IN  /\ u = "Unclear" => v \notin Asserts("terms and conditions", "uniform")
                                        \cup Asserts("terms and conditions", "not uniform")
              /\ v \in Asserts("terms and conditions", "not uniform") => u = "No"

(***************************************************************************)
(* C11.  Each composer removes the atomic keys it consumes before it       *)
(* returns, and the mapping that extract_features_from_html returns holds  *)
(* none of subscriber_opt_out_bdo, subscriber_opt_out_affiliate,           *)
(* counterparty_selection_supported, counterparty_selection_uniform and    *)
(* ioi_uniform_treatment.                                                  *)
(***************************************************************************)
AtomicKeys ==
    {"subscriber_opt_out_bdo", "subscriber_opt_out_affiliate",
     "counterparty_selection_supported", "counterparty_selection_uniform",
     "ioi_uniform_treatment"}

Holds(d, keys) == keys \cap DOMAIN d # {}

C11_AtomicKeysRemoved ==
    /\ pc = "opt_out" =>
          ~Holds(_subscriber_opt_out(results, rows).results,
                 {"subscriber_opt_out_bdo", "subscriber_opt_out_affiliate"})
    /\ pc = "counterparty" =>
          ~Holds(_counterparty_selection(results, rows).results,
                 {"counterparty_selection_supported", "counterparty_selection_uniform"})
    /\ pc = "ioi" =>
          ~Holds(_ioi_support(soup, results, rows).results,
                 {"supports_iois", "ioi_uniform_treatment"})
    /\ Past("opt_out") =>
          ~Holds(results, {"subscriber_opt_out_bdo", "subscriber_opt_out_affiliate"})
    /\ Past("counterparty") =>
          ~Holds(results, {"counterparty_selection_supported",
                           "counterparty_selection_uniform"})
    /\ Past("ioi") => ~Holds(results, {"ioi_uniform_treatment"})
    /\ pc = "done" => ~Holds(results, AtomicKeys)

\* a returned mapping for a filing that answers both uniformity questions
C11_Witness ==
    /\ pc = "done"
    /\ Answer("counterparty_selection_uniform") = "No"
    /\ Answer("ioi_uniform_treatment") = "Yes"
    /\ "counterparty_selection" \in DOMAIN results
    /\ ~Holds(results, AtomicKeys)

(***************************************************************************)
(* C12.  End to end: a filing with one labelled row of the operator        *)
(* opt-out question whose selected marker is followed by "Yes" and one     *)
(* labelled row of the affiliate opt-out question whose selected marker is *)
(* followed by "No" yields the sentence "can opt out of ATS operator but   *)
(* not affiliates" under subscriber_opt_out_capability, and neither atomic *)
(* opt-out key.                                                            *)
(***************************************************************************)
\* row i of the document is a labelled row of the question of `key`
RowOf(key, i) == soup.rows[i].labelled /\ soup.rows[i].td = LabelOf(key)

\* the selected marker of row i is followed by the text `word`
MarkedWith(i, word) ==
    LET img == select_one(soup.rows[i])
    IN  /\ img # 0
        /\ img < Len(soup.rows[i].children)
        /\ soup.rows[i].children[img + 1] = Text(word)

OneRowMarked(key, word) ==
    \E i \in 1..Len(soup.rows) :
        /\ RowOf(key, i)
        /\ MarkedWith(i, word)
        /\ \A j \in 1..Len(soup.rows) : RowOf(key, j) => j = i

C12_OptOutEndToEnd ==
    (/\ pc = "done"
     /\ OneRowMarked("subscriber_opt_out_bdo", Yes)
     /\ OneRowMarked("subscriber_opt_out_affiliate", No))
        => /\ results["subscriber_opt_out_capability"] = OptOutOperatorOnly
           /\ ~Holds(results, {"subscriber_opt_out_bdo", "subscriber_opt_out_affiliate"})

\* the affiliate row first, the operator row second
C12_Witness ==
    /\ pc = "done"
    /\ soup.rows = <<Row(LabelOf("subscriber_opt_out_affiliate"), LayoutNo),
                     Row(LabelOf("subscriber_opt_out_bdo"), LayoutYes)>>
    /\ results["subscriber_opt_out_capability"] = OptOutOperatorOnly

(***************************************************************************)
(* C13.  The keys of the mapping that extract_features_from_html returns   *)
(* are the same for every document: with the identifiers fixed, the key    *)
(* set is a constant of the program, and every one of its keys is present  *)
(* also when no row answers a question and no section is found.            *)
(***************************************************************************)
OrderTypeKeys ==
    {"supports_" \o ORDER_TYPE_PATTERNS[k].key \o "_orders" : k \in 1..Len(ORDER_TYPE_PATTERNS)}
        \cup {"custom_order_types_detected", "custom_order_types_list",
              "custom_order_types_raw_matches", "unrecognised_custom_orders"}

FinalKeys ==
    (IF args.ats_id # None THEN {"ats_id"} ELSE {})
        \cup (IF args.year # None THEN {"year"} ELSE {})
        \cup REGEX_FEATURES
        \cup (DOMAIN YES_NO_QUESTIONS \ AtomicKeys)
        \cup {"subscriber_opt_out_capability", "counterparty_selection",
              "trading_access_summary"}
        \cup OrderTypeKeys
        \cup {"display_mechanism", "display_public_private_guess", "display_feed_names"}
        \cup {"segmentation_tags", "data_segmentation_practices"}

C13_SameKeysForEveryDocument == pc = "done" => DOMAIN results = FinalKeys

\* the mapping returned for a document without rows and without narrative
C13_Witness ==
    /\ pc = "done"
    /\ soup = NoSoup
    /\ DOMAIN results = FinalKeys
    /\ results["ecn_status"] = "Unclear"
    /\ results["segmentation_tags"] = NoneDetected

(***************************************************************************)
(* Specification of parse_order_type_features on its own: a narrative of   *)
(* at most MaxPhrases phrases, joined by ", ", is parsed up to MaxRuns     *)
(* times, each time by a fresh process, and every returned dict is         *)
(* recorded in log.                                                        *)
(***************************************************************************)
OrderPhrases ==
    {<<"M", "i", "d", " ", "P", "e", "g">>,
     <<"m", "i", "d", "p", "o", "i", "n", "t", " ", "p", "e", "g">>,
     <<"V", "W", "A", "P">>,
     <<"F", "O", "O", "B", "A", "R", " ", "o", "r", "d", "e", "r">>,
     <<"M", "A", "R", "K", "E", "T", " ", "o", "r", "d", "e", "r">>,
     <<"A", "B", "C", " ", "p", "e", "g">>,
     <<"a", "b", "c", " ", "o", "r", "d", "e", "r", "s">>,
     <<"t", "h", "e", " ", "o", "r", "d", "e", "r", " ", "t", "y", "p", "e">>}

RECURSIVE PhraseLists(_)
PhraseLists(n) ==
    IF n = 0 THEN {<<>>}
    ELSE LET shorter == PhraseLists(n - 1)
         IN  shorter \cup {Append(l, ph) : l \in {t \in shorter : Len(t) = n - 1},
                                            ph \in OrderPhrases}

OrderNarratives == {JoinStr(<<",", " ">>, l) : l \in PhraseLists(MaxPhrases)}

InitOrderTypes ==
    /\ pc = "narrative"
    /\ txt \in OrderNarratives
    /\ log = <<>>
    /\ norm = <<>>
    /\ soup = NoSoup
    /\ rows = <<>>
    /\ args = NoArgs
    /\ results = EmptyDict
    /\ filters = <<>>
    /\ Idle

\* features = parse_order_type_features(item7_raw)
ParseOrderTypes ==
    /\ pc = "narrative"
    /\ Len(log) < MaxRuns
    /\ \E features \in parse_order_type_features(txt) :
          log' = Append(log, Call("parse_order_type_features", txt, features))
    /\ UNCHANGED <<pc, txt, norm, soup, rows, args, results>>
    /\ UNCHANGED <<process, batch, http>>

NextOrderTypes == ParseOrderTypes

SpecOrderTypes == InitOrderTypes /\ [][NextOrderTypes]_vars

(***************************************************************************)
(* C14.  Extraction is deterministic: two runs on the same text return     *)
(* mappings that are equal key for key and value for value, the fields     *)
(* built from sets included.                                               *)
(***************************************************************************)
C14_RunsAgree ==
    \A c, d \in 1..Len(log) :
        log[c].fragment = log[d].fragment => log[c].outcome = log[d].outcome

(***************************************************************************)
(* Vocabulary of the claims about section extraction.                      *)
(***************************************************************************)
\* the _section_text calls made so far
SectionCalls == {c \in 1..Len(log) : log[c].fn = "_section_text"}

\* position, in document order, of the first Part III item anchor after
\* position a that differs from the anchor at a; 0 when there is none
NextItemAnchor(flat, a) ==
    LET at == {i \in (a + 1)..Len(flat) :
                  /\ flat[i].name = "a"
                  /\ startswith(flat[i].attr, <<"partIII", "item">>)
                  /\ flat[i].attr # flat[a].attr}
    IN  IF at = {} THEN 0 ELSE SetMin(at)

\* the tree without what lies after the first k nodes in document order
RECURSIVE CutAfter(_, _)
CutAfter(nodes, k) ==
    IF nodes = <<>> \/ k <= 0 THEN <<>>
    ELSE LET size == Len(Flatten(<<Head(nodes)>>))
         IN  IF size <= k THEN <<Head(nodes)>> \o CutAfter(Tail(nodes), k - size)
             ELSE <<[Head(nodes) EXCEPT !.children = CutAfter(Head(nodes).children, k - 1)]>>

(***************************************************************************)
(* C15.  Section extraction has an exclusive boundary: the text returned   *)
(* for an anchor holds nothing that lies at or after the next item anchor  *)
(* with another name, so it is the text returned for the document cut off  *)
(* before that anchor, also when the anchor sits inside a container that   *)
(* the traversal reaches first.                                            *)
(***************************************************************************)
C15_ExclusiveBoundary ==
    \A c \in SectionCalls :
        LET flat == Flatten(soup.body)
            a == find_anchor(soup, log[c].fragment)
            next == IF a = 0 THEN 0 ELSE NextItemAnchor(flat, a)
        IN  next # 0 =>
                log[c].outcome =
                    _section_text([soup EXCEPT !.body = CutAfter(soup.body, next - 1)],
                                  log[c].fragment)

(***************************************************************************)
(* C16.  When the starting anchor is the only item anchor of the document, *)
(* extraction runs to the end of the document: the returned text holds the *)
(* string of every text node after the anchor, in document order.          *)
(***************************************************************************)
\* the strings of the text nodes of flat after position a
TextsAfter(flat, a) ==
    LET after == SelectSeq([i \in 1..Len(flat) |-> i],
                           LAMBDA i : i > a /\ flat[i].name = "#text")
    IN  [j \in 1..Len(after) |-> flat[after[j]].string]

\* the pieces occur in s one after the other, from position `from` on
RECURSIVE OccurInOrder(_, _, _)
OccurInOrder(pieces, s, from) ==
    IF pieces = <<>> THEN TRUE
    ELSE LET p == Head(pieces)
             at == {i \in from..(Len(s) - Len(p) + 1) : SubSeq(s, i, i + Len(p) - 1) = p}
         IN  at # {} /\ OccurInOrder(Tail(pieces), s, SetMin(at) + Len(p))

OnlyAnchor(flat, a) == \A i \in 1..Len(flat) : flat[i].name = "a" => i = a

C16_RunsToEndOfDocument ==
    \A c \in SectionCalls :
        LET flat == Flatten(soup.body)
            a == find_anchor(soup, log[c].fragment)
        IN  (a # 0 /\ OnlyAnchor(flat, a)) =>
                OccurInOrder(TextsAfter(flat, a), log[c].outcome, 1)

\* the section of the only anchor, followed by a text and by a container
C16_Witness ==
    /\ soup.body = <<Anchor(PartIII("7")), BText(TextX), Div("fakeBox3", <<BText(TextY)>>)>>
    /\ \E c \in SectionCalls :
          /\ log[c].fragment = PartIII("7")
          /\ log[c].outcome = <<"x", " ", "y", " ", " ", "y", " ">>

(***************************************************************************)
(* Vocabulary of the claims about order-type detection.                    *)
(***************************************************************************)
\* the parse_order_type_features calls made so far
OrderCalls == {c \in 1..Len(log) : log[c].fn = "parse_order_type_features"}

\* the flag of category k, and the categories
FlagOf(k) == "supports_" \o ORDER_TYPE_PATTERNS[k].key \o "_orders"
Category(key) == CHOOSE k \in 1..Len(ORDER_TYPE_PATTERNS) : ORDER_TYPE_PATTERNS[k].key = key

\* a synonym of category k matches the normalised narrative text_norm
SynonymMatches(k, text_norm) ==
    \E j \in 1..Len(ORDER_TYPE_REGEXES[k]) :
        search(ORDER_TYPE_REGEXES[k][j], text_norm).start # 0

\* the items of a field joined with ", "
Items(field) ==
    LET commas == SelectSeq([i \in 1..Len(field) |-> i],
                            LAMBDA i : i < Len(field) /\ field[i] = "," /\ field[i + 1] = " ")
    IN  [n \in 1..(Len(commas) + 1) |->
            SubSeq(field,
                   IF n = 1 THEN 1 ELSE commas[n - 1] + 2,
                   IF n > Len(commas) THEN Len(field) ELSE commas[n] - 1)]

\* the tokens listed in unrecognised_custom_orders
Unrecognised(features) ==
    IF features["unrecognised_custom_orders"] = NoneWord THEN <<>>
    ELSE Items(features["unrecognised_custom_orders"])

MidPeg == <<"M", "i", "d", " ", "P", "e", "g">>
Vwap == <<"V", "W", "A", "P">>

(***************************************************************************)
(* C17.  A narrative that holds "Mid Peg" and "VWAP" and no other synonym  *)
(* sets supports_midpoint_orders and supports_vwap_orders to Yes and the   *)
(* flag of every other category to No, and lists both matched texts in     *)
(* custom_order_types_raw_matches; in general the flag of a category is    *)
(* Yes exactly when one of its synonyms matches.                           *)
(***************************************************************************)
C17_OrderTypeFlags ==
    LET text_norm == _normalise(txt)
        matching == {k \in 1..Len(ORDER_TYPE_PATTERNS) : SynonymMatches(k, text_norm)}
        others == (1..Len(ORDER_TYPE_PATTERNS)) \ {Category("midpoint"), Category("vwap")}
    IN  \A c \in OrderCalls :
            LET features == log[c].outcome
            IN  /\ log[c].fragment = txt
                /\ \A k \in 1..Len(ORDER_TYPE_PATTERNS) :
                      /\ features[FlagOf(k)] \in {"Yes", "No"}
                      /\ features[FlagOf(k)] = "Yes" <=> k \in matching
                /\ (/\ In(MidPeg, txt)
                    /\ In(Vwap, txt)
                    /\ others \cap matching = {})
                      => /\ features["supports_midpoint_orders"] = "Yes"
                         /\ features["supports_vwap_orders"] = "Yes"
                         /\ \A k \in others : features[FlagOf(k)] = "No"
                         /\ In(lower(MidPeg), features["custom_order_types_raw_matches"])
                         /\ In(lower(Vwap), features["custom_order_types_raw_matches"])

\* the narrative "Mid Peg, VWAP" has been parsed
C17_Witness ==
    \E c \in OrderCalls :
        /\ log[c].fragment = MidPeg \o <<",", " ">> \o Vwap
        /\ log[c].outcome["supports_midpoint_orders"] = "Yes"
        /\ log[c].outcome["supports_vwap_orders"] = "Yes"
        /\ log[c].outcome["supports_market_orders"] = "No"
        /\ log[c].outcome["custom_order_types_raw_matches"] =
               <<"m", "i", "d", "p", "o", "i", "n", "t", ":", "m", "i", "d", " ", "p", "e", "g", ";", " ", "v", "w", "a", "p", ":", "v", "w", "a", "p">>

(***************************************************************************)
(* C18.  A token in front of "order(s)", "peg(ged)" or "order type" is     *)
(* listed in unrecognised_custom_orders only if it is neither a stopword   *)
(* nor part of a detected category: "FOOBAR order" lists FOOBAR, "MARKET   *)
(* order" does not list MARKET, and the leading word of a detected         *)
(* synonym, "Mid" of "Mid Peg", is not listed.                             *)
(***************************************************************************)
\* the texts that the synonyms of the detected categories matched
MatchedSynonyms(narrative) == Range(Concat(raw_hits(_normalise(narrative))))

C18_UnknownTokenFilter ==
    \A c \in OrderCalls :
        LET narrative == log[c].fragment
            listed == Range(Unrecognised(log[c].outcome))
        IN  /\ In(<<"F", "O", "O", "B", "A", "R", " ", "o", "r", "d", "e", "r">>, narrative) => <<"F", "O", "O", "B", "A", "R">> \in listed
            /\ <<"M", "A", "R", "K", "E", "T">> \notin listed
            /\ <<"M", "I", "D">> \notin listed
            /\ \A tok \in listed :
                  /\ tok \notin STOP
                  /\ \A matched \in MatchedSynonyms(narrative) : ~In(lower(tok), matched)

(***************************************************************************)
(* C19.  The list written to unrecognised_custom_orders is in ascending    *)
(* order and holds no token twice.                                         *)
(***************************************************************************)
C19_UnrecognisedSorted ==
    \A c \in OrderCalls :
        LET listed == Unrecognised(log[c].outcome)
        IN  \A i, j \in 1..Len(listed) : i < j => StrLess(listed[i], listed[j])

(***************************************************************************)
(* C20.  When the narrative of the segmentation item is empty or missing,  *)
(* or holds no known segmentation phrase, segmentation_tags is the marker  *)
(* "none detected", never the empty str; otherwise it is the distinct      *)
(* matched phrases, lower-cased, sorted and joined with ", ".              *)
(***************************************************************************)
\* the phrases of _seg_token_rx found in the narrative, lower-cased
MatchedPhrases(prose) ==
    LET found == finditer(_seg_token_rx, prose)
    IN  {lower(group0(prose, found[i])) : i \in 1..Len(found)}

Consumes(stage) ==
    IF stage = "opt_out"
      THEN {"subscriber_opt_out_bdo", "subscriber_opt_out_affiliate"}
    ELSE IF stage = "counterparty"
      THEN {"counterparty_selection_supported", "counterparty_selection_uniform"}
    ELSE IF stage = "ioi" THEN {"supports_iois", "ioi_uniform_treatment"}
    ELSE IF stage = "segmentation" THEN SegmentationKeys
    ELSE {}

C21_StagesInOrder ==
    [][/\ pc' # pc => \/ pc' = "TypeError"
                      \/ StageNo(pc') = StageNo(pc) + 1
       /\ Consumes(pc') \subseteq DOMAIN results']_vars

\* the segmentation stage is about to pop its five answers
C21_Witness ==
    /\ pc = "segmentation"
    /\ SegmentationKeys \subseteq DOMAIN results
    /\ Answer("ioi_uniform_treatment") = "Yes"
    /\ ~Holds(results, AtomicKeys)


(***************************************************************************)
(* C22: the row index lists every table row that contains a label cell,    *)
(* in document order, and the label stored for each row is the normalised  *)
(* text of that row's label cell (td.label), also when the label cell is   *)
(* not the first cell of the row.                                          *)
(***************************************************************************)
C22_IndexOfLabelCells ==
    pc = "indexed" =>
        LET sel == select_labelled(soup.rows)
        IN  /\ Len(rows) = Len(sel)
            /\ \A i \in 1..Len(sel) :
                   /\ rows[i].row = sel[i]
                   /\ rows[i].label = _normalise(sel[i].label_cell)

(***************************************************************************)
(* C23: the row index is built exactly once per document, in the           *)
(* RadioMatrix constructor, and is never mutated afterwards: the radio     *)
(* stage and the composers leave the list of (label, row) pairs unchanged  *)
(* in content and order.                                                   *)
(***************************************************************************)
C23_IndexBuiltOnce ==
    [][/\ pc = "start" => rows' = _build_rows_cache(soup)
       /\ pc # "start" => rows' = rows /\ soup' = soup]_vars

\* the call has run every composer on a document with two indexed rows, and
\* the index is still the one the constructor built
C23_Witness ==
    /\ pc = "done"
    /\ Len(rows) = 2
    /\ rows = _build_rows_cache(soup)
    /\ "counterparty_selection" \in DOMAIN results

(***************************************************************************)
(* Two calls of extract_features_from_html in one process, each on its own *)
(* document, their steps interleaved.  The running call owns pc, soup,     *)
(* rows, args and results; the other call is suspended with its own; a     *)
(* switch exchanges them.  warnings.filters belongs to the process.        *)
(***************************************************************************)
\* a dict with its items computed
AsDict(d) == d @@ <<>>

\* extract_features_from_html as a function of its arguments: the control
\* point it ends at and the dict it has built, for every order in which
\* list({...}) of line 304 can enumerate the unknown tokens
extract_features_from_html(sp, a) ==
    LET withId == IF TruthyStr(a.ats_id) THEN Set(EmptyDict, "ats_id", a.ats_id) ELSE EmptyDict
        start == IF TruthyInt(a.year) THEN Set(withId, "year", a.year) ELSE withId
        regex == Update(start,
                        [key \in REGEX_FEATURES |-> IF key \in sp.hits THEN "Yes" ELSE "No"])
    IN  \* the stages, first to last, from the outermost set to the innermost:
        \* each is computed once and its dict is handed to the next one
        UNION {UNION {
          IF \E key \in DOMAIN answer : answer[key] = "TypeError"
            THEN {[pc |-> "TypeError", results |-> AsDict(regex)]}
            ELSE
        UNION {UNION {UNION {UNION {UNION {UNION {UNION {UNION {UNION {
          {[pc |-> "done",
            results |-> AsDict(Update(display, _extract_segmentation_features(sp, display)))]
          : display \in {AsDict(Update(order_type, _extract_display_features(sp)))}}
          : order_type \in {AsDict(Update(ioi, features)) :
                               features \in parse_order_type_features(_item7_text(sp))}}
          : ioi \in {AsDict(Set(i.results, "supports_iois", i.value))}}
          : i \in {_ioi_support(sp, internal, radios)}}
          : internal \in {AsDict(Update(counterparty, extract_internal_trading_access(radios)))}}
          : counterparty \in {AsDict(Set(c.results, "counterparty_selection", c.value))}}
          : c \in {_counterparty_selection(opt_out, radios)}}
          : opt_out \in {AsDict(Set(o.results, "subscriber_opt_out_capability", o.value))}}
          : o \in {_subscriber_opt_out(radio, radios)}}
          : radio \in {AsDict(Update(regex, [key \in DOMAIN answer |->
                                                _bool_to_word(answer[key])]))}}
          : answer \in {AsDict([key \in DOMAIN YES_NO_QUESTIONS |->
                                   _radio_yes_no(radios, YES_NO_QUESTIONS[key])])}}
          : radios \in {_build_rows_cache(sp)}}

\* the documents of the two calls: HTML and XML filings, with and without
\* rows and narrative
XmlFiling == [NoSoup EXCEPT !.is_xml = TRUE]

ConcurrentFilings ==
    {NoSoup, XmlFiling,
     [NoSoup EXCEPT !.rows = <<Row(LabelOf("supports_iois"), LayoutYes)>>,
                    !.hits = {"supports_iois"}],
     [XmlFiling EXCEPT !.rows = <<Row(LabelOf("ecn_status"), LayoutNo)>>,
                       !.hits = {"supports_iois"}],
     [NoSoup EXCEPT !.body = <<Anchor(PartIII("13")), BText(TagText)>>],
     [NoSoup EXCEPT !.rows = <<Row(LabelOf("ecn_status"), <<Checked, Span>>)>>]}

ConcurrentArgs == {NoArgs, [ats_id |-> "A1", year |-> "21"]}

\* the filters the process starts with: none, or the entry a call installed
\* earlier below another one
ProcessFilters ==
    {<<>>,
     <<[action |-> "default", category |-> "DeprecationWarning"], IgnoreXMLParsedAsHTML>>}

Started(sp, a) ==
    [pc |-> "start", soup |-> sp, args |-> a, rows |-> <<>>, results |-> EmptyDict]

InitInterleaved ==
    /\ pc = "start"
    /\ soup \in ConcurrentFilings
    /\ args \in ConcurrentArgs
    /\ rows = <<>>
    /\ results = EmptyDict
    /\ \E sp \in ConcurrentFilings \ {soup}, a \in ConcurrentArgs \ {args} :
          suspended = Started(sp, a)
    /\ filters \in ProcessFilters
    /\ log = <<>>
    /\ txt = <<>>
    /\ norm = <<>>
    /\ files = <<>>
    /\ bin_rows = <<>>
    /\ long_rows = <<>>
    /\ warned = <<>>
    /\ attempt = 0
    /\ sent = <<>>
    /\ slept = <<>>

\* the scheduler suspends the running call and resumes the other one
Switch ==
    /\ suspended # NoCall
    /\ pc' = suspended.pc
    /\ soup' = suspended.soup
    /\ args' = suspended.args
    /\ rows' = suspended.rows
    /\ results' = suspended.results
    /\ suspended' = [pc |-> pc, soup |-> soup, args |-> args, rows |-> rows,
                     results |-> results]
    /\ UNCHANGED <<txt, norm, log, filters, batch, http>>

NextInterleaved ==
    \/ Load
    \/ RegexFeatures
    \/ RadioQuestions
    \/ SubscriberOptOut
    \/ CounterpartySelection
    \/ InternalTradingAccess
    \/ IoiSupport
    \/ OrderTypeFeatures
    \/ DisplayFeatures
    \/ SegmentationFeatures
    \/ Switch

SpecInterleaved == InitInterleaved /\ [][NextInterleaved]_vars

(***************************************************************************)
(* C24: extraction of one document shares no mutable state with any        *)
(* other: interleaved calls of extract_features_from_html on different     *)
(* documents each return the same mapping as when run alone, and a call    *)
(* leaves the process-wide state unchanged.  The pattern tables are        *)
(* constants of the module; the process-wide state a call can reach is     *)
(* warnings.filters.                                                       *)
(***************************************************************************)
C24_NoSharedState ==
    [][/\ pc' \in {"done", "TypeError"} =>
             [pc |-> pc', results |-> results'] \in extract_features_from_html(soup', args')
       /\ filters' = filters]_vars

(***************************************************************************)
(* batch_runner.py: the conversion of a feature value into a table cell.   *)
(* A value handed to yni is a str (its characters) or None, written here   *)
(* as the one-element tuple that holds None, which is no str.  The ints 1  *)
(* and 0 and the float nan are written as Python prints them.              *)
(***************************************************************************)
NoneValue == <<None>>

Unclear == <<"U", "n", "c", "l", "e", "a", "r">>

yni(v) ==
    IF NoneValue = v \/ startswith(v, "Unclear") THEN "nan"
    ELSE IF startswith(v, "Yes") THEN "1" ELSE "0"

\* the values: the tri-state words, what the extractor writes when it finds
\* nothing, and near misses, each alone and followed by the rest of a
\* sentence
YniWords ==
    {Yes, No, Unclear, <<>>, <<"N", "o", "n", "e">>,
     <<"N", "o", "t", " ", "f", "o", "u", "n", "d">>, <<"y", "e", "s">>, <<"N", "/", "A">>,
     <<"U", "n", "s", "p", "e", "c", "i", "f", "i", "e", "d">>}

YniTails ==
    {<<>>, <<" ">>, <<" ", "&mdash;", " ", "u", "n", "i", "f", "o", "r", "m">>, <<".">>,
     <<",", " ", "n", "o">>, <<" ", "(", "Y", "e", "s", ")">>}

YniValues == {NoneValue} \cup {w \o t : w \in YniWords, t \in YniTails}

InitYni ==
    /\ pc = "value"
    /\ args \in {[v |-> v] : v \in YniValues}
    /\ log = <<>>
    /\ txt = <<>>
    /\ norm = <<>>
    /\ soup = NoSoup
    /\ rows = <<>>
    /\ results = EmptyDict
    /\ filters = <<>>
    /\ Idle

\* nr[k] = yni(v)
Convert ==
    /\ pc = "value"
    /\ log' = Append(log, Call("yni", args.v, yni(args.v)))
    /\ pc' = "converted"
    /\ UNCHANGED <<txt, norm, soup, rows, args, results>>
    /\ UNCHANGED <<process, batch, http>>

NextYni == Convert

SpecYni == InitYni /\ [][NextYni]_vars

\* the value is the word w, alone or at the head of a sentence
IsWord(v, w) ==
    /\ v # NoneValue
    /\ startswith(v, w)
    /\ Len(v) > Len(w) => LowerChar(v[Len(w) + 1]) \notin WordChars

(***************************************************************************)
(* C25: yni maps the value "Yes" to 1, "No" to 0, and a missing value or   *)
(* any value starting with "Unclear" to missing (NaN); a value that is     *)
(* none of Yes/No/Unclear (e.g. "None", "Not found", an empty string) is   *)
(* not reported as 0.                                                      *)
(***************************************************************************)
C25_YniTriState ==
    \A c \in 1..Len(log) :
        log[c].fn = "yni" =>
            LET v == log[c].fragment
                cell == log[c].outcome
            IN  /\ v = Yes => cell = "1"
                /\ v = No => cell = "0"
                /\ (v = NoneValue \/ startswith(v, Unclear)) => cell = "nan"
                /\ (/\ v # NoneValue
                    /\ ~IsWord(v, Yes)
                    /\ ~IsWord(v, No)
                    /\ ~startswith(v, Unclear)) => cell # "0"

(***************************************************************************)
(* batch_runner.py: the feature extraction loop.  A file is its name, its  *)
(* document, and whether read_text can read it.                            *)
(***************************************************************************)
MaxFiles == 2

BIN_KEYS ==
    {"offers_hosted_pool", "subscriber_opt_out_capability", "internal_trading_allowed",
     "affiliate_access_to_ats", "routing_to_affiliate_venue", "segmentation_supported",
     "segmentation_customer_flag", "segmentation_disclosed", "segmentation_uniform",
     "market_data_feed_available", "display_to_persons", "display_procedures_uniform",
     "supports_iois", "custom_order_types", "ecn_status"}

TXT_KEYS ==
    {"trading_access_summary", "data_segmentation_practices", "custom_order_types_list",
     "unrecognised_custom_orders"}

\* the keys of the complexity score
ComplexityKeys ==
    {"supports_midpoint_orders", "supports_market_peg_orders", "supports_primary_peg_orders",
     "supports_vwap_orders", "supports_post_only_orders", "supports_conditional_orders"}

\* dict.get(key) and dict.get(key, default)
get(d, key, default) == IF key \in DOMAIN d THEN d[key] ELSE default

\* Path.stem: the name without its last suffix
RECURSIVE LastDot(_, _)
LastDot(name, i) ==
    IF i = 0 THEN 0 ELSE IF name[i] = "." THEN i ELSE LastDot(name, i - 1)

stem(name) ==
    LET dot == LastDot(name, Len(name))
    IN  IF dot <= 1 THEN name ELSE SubSeq(name, 1, dot - 1)

\* str.split(sep) with a one-character separator
RECURSIVE split(_, _)
split(s, sep) ==
    LET at == {i \in 1..Len(s) : s[i] = sep}
    IN  IF at = {} THEN <<s>>
        ELSE LET first == CHOOSE i \in at : \A j \in at : i <= j
             IN  <<SubSeq(s, 1, first - 1)>> \o split(SubSeq(s, first + 1, Len(s)), sep)

RECURSIVE StripZeros(_)
StripZeros(digits) ==
    IF Len(digits) > 1 /\ Head(digits) = "0" THEN StripZeros(Tail(digits)) ELSE digits

\* int(s): the decimal digits of the value, or ValueError
int(s) ==
    LET t == strip(s)
        signed == t # <<>> /\ t[1] \in {"+", "-"}
        digits == IF signed THEN Tail(t) ELSE t
        value == StripZeros(digits)
    IN  IF digits = <<>> \/ \E i \in 1..Len(digits) : digits[i] \notin Digits
          THEN "ValueError"
        ELSE IF signed /\ t[1] = "-" /\ value # <<"0">> THEN <<"-">> \o value
        ELSE value

\* the numeric row and the long-text row of a file
numeric_row(ats_id, yr, feats) ==
    LET head == [key \in {"ats_id", "year"} |-> IF key = "ats_id" THEN ats_id ELSE yr]
        cells == [key \in BIN_KEYS |-> yni(get(feats, key, NoneValue))]
        score == Cardinality({key \in ComplexityKeys : yni(get(feats, key, NoneValue)) = "1"})
    IN  Set(Update(head, cells), "order_type_complexity", score)

long_row(nr, feats) == Update(nr, [key \in TXT_KEYS |-> get(feats, key, "")])

Html == <<".", "h", "t", "m", "l">>

FileNames ==
    {<<"A", "_", "2", "1">> \o Html, <<"A">> \o Html, <<"A", "_", "B", "_", "2", "1">> \o Html,
     <<"A", "_", "2", "x">> \o Html, <<"_", "0">> \o Html}

BatchFilings ==
    {NoSoup,
     [XmlFiling EXCEPT !.rows = <<Row(LabelOf("ecn_status"), LayoutYes)>>],
     [NoSoup EXCEPT !.rows = <<Row(LabelOf("ecn_status"), <<Checked, Span>>)>>]}

\* ats_id, yr = stem.split("_"); yr = int(yr): whether the two statements
\* run without ValueError, and the arguments they give the extraction
well_named(name) ==
    LET parts == split(stem(name), "_")
    IN  Len(parts) = 2 /\ int(parts[2]) # "ValueError"

stem_args(name) ==
    LET parts == split(stem(name), "_")
    IN  [ats_id |-> parts[1], year |-> int(parts[2])]

\* the two statements and extract_features_from_html on the names, the
\* documents and the arguments of the batch, computed once
WellNamed == {n \in FileNames : well_named(n)}

StemArgs == [n \in WellNamed |-> stem_args(n)] @@ <<>>

Extractions ==
    [sp \in BatchFilings, a \in {stem_args(n) : n \in WellNamed} |->
        extract_features_from_html(sp, a)] @@ <<>>

\* what the body of the try block does with one file: the exception it
\* ends in, or the two rows; for every mapping the extraction can return
try_file(f) ==
    IF f.name \notin WellNamed THEN {[raised |-> "ValueError"]}
    ELSE IF ~f.readable THEN {[raised |-> "OSError"]}
    ELSE LET a == StemArgs[f.name]
         IN  {IF o.pc # "done" THEN [raised |-> o.pc]
              ELSE LET nr == numeric_row(a.ats_id, a.year, o.results)
                   IN  [raised |-> "no", nr |-> nr, lr |-> long_row(nr, o.results)] :
                  o \in Extractions[f.soup, a]}

\* whether the body of the try block gets as far as _get_soup
parses(f) == f.name \in WellNamed /\ f.readable

Files ==
    {[name |-> n, readable |-> TRUE, soup |-> sp] : n \in FileNames, sp \in BatchFilings}
        \cup {[name |-> n, readable |-> FALSE, soup |-> NoSoup] : n \in FileNames}

RECURSIVE FileLists(_)
FileLists(n) ==
    IF n = 0 THEN {<<>>}
    ELSE LET shorter == FileLists(n - 1)
         IN  shorter \cup {Append(fs, f) : fs \in {t \in shorter : Len(t) = n - 1}, f \in Files}

InitBatch ==
    /\ pc = "loop"
    /\ files \in FileLists(MaxFiles)
    /\ bin_rows = <<>>
    /\ long_rows = <<>>
    /\ warned = <<>>
    /\ filters = <<>>
    /\ suspended = NoCall
    /\ soup = NoSoup
    /\ rows = <<>>
    /\ args = NoArgs
    /\ results = EmptyDict
    /\ log = <<>>
    /\ txt = <<>>
    /\ norm = <<>>
    /\ attempt = 0
    /\ sent = <<>>
    /\ slept = <<>>

\* the loop without its try block: the first exception ends the batch
ProcessFile_uncaught ==
    /\ pc = "loop"
    /\ files # <<>>
    /\ LET f == Head(files)
       IN  /\ \E outcome \in try_file(f) :
                IF outcome.raised # "no"
                  THEN /\ pc' = outcome.raised
                       /\ files' = <<>>
                       /\ UNCHANGED <<bin_rows, long_rows>>
                  ELSE /\ bin_rows' = Append(bin_rows, outcome.nr)
                       /\ long_rows' = Append(long_rows, outcome.lr)
                       /\ files' = Tail(files)
                       /\ UNCHANGED pc
           /\ filters' = IF parses(f) THEN _get_soup_filters(f.soup, filters) ELSE filters
    /\ UNCHANGED <<txt, norm, soup, rows, log, args, results, warned, suspended, http>>

\* one iteration of `for f in ...`: the try block on the next file, and the
\* except clause when it raises
ProcessFile ==
    /\ pc = "loop"
    /\ files # <<>>
    /\ LET f == Head(files)
       IN  /\ \E outcome \in try_file(f) :
                IF outcome.raised # "no"
                  THEN /\ warned' = Append(warned, [name |-> f.name, e |-> outcome.raised])
                       /\ UNCHANGED <<bin_rows, long_rows>>
                  ELSE /\ bin_rows' = Append(bin_rows, outcome.nr)
                       /\ long_rows' = Append(long_rows, outcome.lr)
                       /\ UNCHANGED warned
           /\ filters' = IF parses(f) THEN _get_soup_filters(f.soup, filters) ELSE filters
    /\ files' = Tail(files)
    /\ UNCHANGED <<pc, txt, norm, soup, rows, log, args, results, suspended, http>>

NextBatch == ProcessFile

SpecBatch == InitBatch /\ [][NextBatch]_vars

\* the for loop goes on until its list is exhausted
FairSpecBatch == SpecBatch /\ WF_vars(ProcessFile)

\* the failures of the claim, told from the file alone: a stem that is not
\* one identifier, one underscore and one integer numeral; a file that
\* cannot be read; a document on which the extraction raises
BadStem(name) ==
    LET st == stem(name)
        under == {i \in 1..Len(st) : st[i] = "_"}
        numeral == IF under = {} THEN <<>>
                   ELSE SubSeq(st, (CHOOSE i \in under : TRUE) + 1, Len(st))
    IN  \/ Cardinality(under) # 1
        \/ numeral = <<>>
        \/ \E i \in 1..Len(numeral) : numeral[i] \notin Digits

Fails(f) ==
    \/ BadStem(f.name)
    \/ ~f.readable
    \/ \E key \in DOMAIN YES_NO_QUESTIONS :
          _radio_yes_no(_build_rows_cache(f.soup), YES_NO_QUESTIONS[key]) = "TypeError"

(***************************************************************************)
(* C26: batch isolation.  When processing one file fails (bad file-name    *)
(* stem, unreadable file, or an exception from extraction), the batch loop *)
(* logs a warning, adds no row for that file to either the binary or the   *)
(* long-text table, and goes on to the next file; every file is eventually *)
(* attempted and the two tables always have the same number of rows.       *)
(***************************************************************************)
C26_BatchIsolation ==
    /\ [][files # <<>> =>
            LET f == Head(files)
            IN  /\ files' = Tail(files)
                /\ pc' = "loop"
                /\ IF Fails(f)
                     THEN /\ Len(warned') = Len(warned) + 1
                          /\ warned'[Len(warned')].name = f.name
                          /\ bin_rows' = bin_rows
                          /\ long_rows' = long_rows
                     ELSE /\ warned' = warned
                          /\ Len(bin_rows') = Len(bin_rows) + 1
                          /\ Len(long_rows') = Len(long_rows) + 1]_vars
    /\ [](Len(bin_rows) = Len(long_rows))
    /\ <>(files = <<>>)

\* the extraction raised on the first file, and the loop went on to the
\* second one and wrote its two rows
C26_Witness ==
    /\ files = <<>>
    /\ Len(warned) = 1
    /\ warned[1].e = "TypeError"
    /\ Len(bin_rows) = 1
    /\ Len(long_rows) = 1
    /\ bin_rows[1]["ecn_status"] = "1"

(***************************************************************************)
(* download_filings.py: _get_json(url, tries).  A response is its status   *)
(* code; requests.get can also raise instead of answering, and the body of *)
(* an OK response can fail to parse as JSON.                               *)
(***************************************************************************)
MaxTries == 5

\* tries: int = 5
DefaultTries == 5

Statuses == {200, 404, 429, 500, 502, 503, 504}

\* r.status_code in (429, 502, 503, 504)
Retryable == {429, 502, 503, 504}

\* r.raise_for_status() raises HTTPError for 4xx and 5xx; r.ok is True when
\* it does not raise
raise_for_status(status) == 400 <= status /\ status < 600

ok(status) == ~raise_for_status(status)

InitRetry ==
    /\ pc = "loop"
    /\ args \in {[tries |-> n] : n \in 0..MaxTries}
    /\ attempt = 0
    /\ sent = <<>>
    /\ slept = <<>>
    /\ filters = <<>>
    /\ suspended = NoCall
    /\ files = <<>>
    /\ bin_rows = <<>>
    /\ long_rows = <<>>
    /\ warned = <<>>
    /\ soup = NoSoup
    /\ rows = <<>>
    /\ results = EmptyDict
    /\ log = <<>>
    /\ txt = <<>>
    /\ norm = <<>>

\* one iteration of `for k in range(tries)`, lines 30-36
Request ==
    /\ pc = "loop"
    /\ attempt < args.tries
    /\ \/ /\ pc' = "ConnectionError"
          /\ UNCHANGED <<attempt, sent, slept>>
       \/ \E status \in Statuses :
             /\ sent' = Append(sent, status)
             /\ IF ok(status)
                  THEN /\ pc' \in {"returned", "JSONDecodeError"}
                       /\ UNCHANGED <<attempt, slept>>
                ELSE IF status \in Retryable
                  THEN /\ slept' = Append(slept, 2 ^ attempt)
                       /\ attempt' = attempt + 1
                       /\ UNCHANGED pc
                ELSE /\ pc' = "HTTPError"
                     /\ UNCHANGED <<attempt, slept>>
    /\ UNCHANGED <<txt, norm, soup, rows, log, args, results, process, batch>>

\* a last statement that does not raise: the function ends and returns None
LastRaise_returning ==
    /\ pc = "loop"
    /\ attempt >= args.tries
    /\ pc' = "returned"
    /\ UNCHANGED <<txt, norm, soup, rows, log, args, results, process, batch, http>>

\* line 37, after the loop has run out: r.raise_for_status() on the last
\* response; r is unbound when the loop made no iteration
LastRaise ==
    /\ pc = "loop"
    /\ attempt >= args.tries
    /\ pc' = IF sent = <<>> THEN "UnboundLocalError"
             ELSE IF raise_for_status(sent[Len(sent)]) THEN "HTTPError"
             ELSE "returned"
    /\ UNCHANGED <<txt, norm, soup, rows, log, args, results, process, batch, http>>

NextRetry == Request \/ LastRaise

SpecRetry == InitRetry /\ [][NextRetry]_vars

\* the statements of the function run one after the other
FairSpecRetry == SpecRetry /\ WF_vars(Request) /\ WF_vars(LastRaise)

IoiSentence ==
    uniformity_sentence(Answer("supports_iois"), "terms and conditions",
                        _radio_yes_no(rows, YES_NO_QUESTIONS["ioi_uniform_treatment"]))

\* the step assigns results["supports_iois"]
WritesIoi ==
    /\ "supports_iois" \in DOMAIN results'
    /\ "supports_iois" \in DOMAIN results => results'["supports_iois"] # results["supports_iois"]

C28_IoiKeyOverwritten ==
    [][/\ (pc = "regex" /\ pc' = "radio")
            => results'["supports_iois"]
                   = (IF "supports_iois" \in soup.hits THEN "Yes" ELSE "No")
       /\ (pc = "radio" /\ pc' = "opt_out")
            => results'["supports_iois"] = Answer("supports_iois")
       /\ (pc = "ioi" /\ pc' = "order_type")
            => results'["supports_iois"] = IoiSentence
       /\ WritesIoi => pc \in {"regex", "radio", "ioi"}
       /\ pc' = "done" => results'["supports_iois"] = IoiSentence]_vars

\* two returned calls on filings with the same answers, one whose text
\* matches the presence pattern and one whose text does not: here the one
\* that matches, with the uniformity question answered No
C28_Witness ==
    /\ pc = "done"
    /\ soup.hits = {"supports_iois"}
    /\ Answer("supports_iois") = "Unclear"
    /\ Answer("ioi_uniform_treatment") = "No"
    /\ results["supports_iois"] = "Unclear &mdash; terms and conditions are not uniform"
    /\ [soup EXCEPT !.hits = {}] \in Filings

(***************************************************************************)
(* C29: every key the batch layer reads, each BIN_KEYS and TXT_KEYS entry  *)
(* and the six supports_*_orders keys of the complexity score, is present  *)
(* in the mapping extract_features_from_html returns, for every document,  *)
(* so feats.get never falls back to its default, and                       *)
(* order_type_complexity is always an integer between 0 and 6.             *)
(***************************************************************************)
\* a default that no value of the mapping equals
Missing == <<"missing">>

C29_ProducerConsumerKeys ==
    pc = "done" =>
        /\ BIN_KEYS \cup TXT_KEYS \cup ComplexityKeys \subseteq DOMAIN results
        /\ \A key \in BIN_KEYS \cup TXT_KEYS \cup ComplexityKeys :
              Missing # get(results, key, Missing)
        /\ \A key \in ComplexityKeys : results[key] \in {"Yes", "No"}
        /\ numeric_row("A", "21", results)["order_type_complexity"] \in 0..6

\* a returned mapping of a filing whose Item 7 names a mid peg: the score
\* the batch layer computes from it is 1
C29_Witness ==
    /\ pc = "done"
    /\ results["supports_midpoint_orders"] = "Yes"
    /\ numeric_row("A", "21", results)["order_type_complexity"] = 1
    /\ long_row(numeric_row("A", "21", results), results)["custom_order_types_list"] # <<>>

(***************************************************************************)
(* C30: custom_order_types_list is a sorted, comma-joined list in which    *)
(* each detected category and each unrecognised token appears at most      *)
(* once, also when two synonyms of the same category both match the        *)
(* narrative ("mid peg" and "midpoint peg"); and                           *)
(* custom_order_types_detected is Yes exactly when that list is non-empty. *)
(***************************************************************************)
\* the entries of custom_order_types_list
Listed(features) ==
    IF features["custom_order_types_list"] = <<>> THEN <<>>
    ELSE Items(features["custom_order_types_list"])

C30_OrderTypeListDistinct ==
    \A c \in OrderCalls :
        LET features == log[c].outcome
            listed == Listed(features)
            categories == {ORDER_TYPE_PATTERNS[k].chars :
                              k \in {n \in 1..Len(ORDER_TYPE_PATTERNS) :
                                        features[FlagOf(n)] = "Yes"}}
        IN  /\ \A i, j \in 1..Len(listed) : i < j => StrLess(listed[i], listed[j])
            /\ Range(listed) = categories \cup Range(Unrecognised(features))
            /\ features["custom_order_types_detected"] = "Yes" <=> listed # <<>>
====
